---- MODULE Spec2Model ----
(***************************************************************************)
(* A model of the incremental fetch-and-reconcile engine of the game       *)
(* pricing pipeline: the snapshot diff of DataProcessor with the delta      *)
(* files it stages and the uploader that applies them, and the batched      *)
(* fetch / checkpoint / staged-retry protocol of the fetchers with their    *)
(* status cache.                                                            *)
(***************************************************************************)
EXTENDS Integers, Sequences, FiniteSets, TLC

\* ------------------------------------------------------------------------
\* Bounds of the model
\* ------------------------------------------------------------------------
\* identity values of snapshot rows are 1..MaxId
MaxId == 3
\* non-identity cells hold 0..MaxVal or the missing value NaN
MaxVal == 1
\* a snapshot table holds at most MaxRows rows
MaxRows == 2
\* the rows of the table the pipeline reconciles have the identities
\* 1..MaxTableId
MaxTableId == 2
\* the fetchers work on the keys (app ids, page numbers) 1..MaxKey
MaxKey == 2
\* items per batch of the first pass (40 in the program) and of a retry
\* round (20 in the program), scaled to the number of keys
BatchSize == 1
RetryBatchSize == 1
\* a process is started at most MaxRuns times
MaxRuns == 2
\* the clock runs from 0 to MaxNow hours, TickHours at a time between runs
MaxNow == 50
TickHours == 25

\* ------------------------------------------------------------------------
\* Constants of the program
\* ------------------------------------------------------------------------
\* CacheManager.too_many_fails(key, max_attempts=3)
MaxAttempts == 3
\* is_stale(app_id, hours=48) of the detail fetcher
DetailFreshHours == 48
\* is_stale(app_id, hours=24) of the active-player and list fetchers
PlayerFreshHours == 24
\* @retry_on_exception(max_retries=2) on fetch_review_data
ReviewCallAttempts == 2
\* the last of the five retry stages
LastStage == 5

\* ------------------------------------------------------------------------
\* Snapshot tables (pandas DataFrames with the columns id, price)
\* ------------------------------------------------------------------------
\* the float NaN pandas stores for a missing cell
NaN == 0 - 1

Ids == 1..MaxId
Vals == (0..MaxVal) \cup {NaN}
Row == [id : Ids, price : Vals]

\* the columns of the modelled table and its identity columns
\* (index_columns_map[table_name])
Columns == {"id", "price"}
IndexCols == {"id"}

\* tables of exactly n rows whose identity values are pairwise distinct
TablesOfLen(n) ==
    {t \in [1..n -> Row] : \A i, j \in 1..n : i # j => t[i].id # t[j].id}

AllTables == UNION {TablesOfLen(n) : n \in 0..MaxRows}

\* tables whose rows are in ascending identity order, as every parser
\* leaves its table before it hands it to save_if_changed
SortedTables ==
    {t \in AllTables : \A i, j \in 1..Len(t) : i < j => t[i].id < t[j].id}

IdsOf(t) == {t[i].id : i \in 1..Len(t)}
RowsOf(t) == {t[i] : i \in 1..Len(t)}
RowOf(t, i) == t[CHOOSE j \in 1..Len(t) : t[j].id = i]

RECURSIVE SortedSeq(_)
\* the elements of a finite set of integers in ascending order
SortedSeq(S) ==
    IF S = {} THEN <<>>
    ELSE LET m == CHOOSE x \in S : \A y \in S : x <= y
         IN <<m>> \o SortedSeq(S \ {m})

\* Python's != on two cells: NaN differs from everything, itself included
PyNotEqual(a, b) == a = NaN \/ b = NaN \/ a # b

\* DataProcessor.sort_by_index_columns
sort_by_index_columns(t) ==
    LET keys == SortedSeq(IdsOf(t))
    IN [n \in 1..Len(t) |-> RowOf(t, keys[n])]

\* pd.merge(new, old, on=index_cols, how="outer", suffixes, indicator=True):
\* one row per identity value of either side, in key order
merge_outer(new, old) ==
    LET keys == SortedSeq(IdsOf(new) \cup IdsOf(old))
    IN [n \in 1..Len(keys) |->
          LET i == keys[n]
          IN [id |-> i,
              price_new |-> IF i \in IdsOf(new) THEN RowOf(new, i).price ELSE NaN,
              price_old |-> IF i \in IdsOf(old) THEN RowOf(old, i).price ELSE NaN,
              merge |-> IF i \in IdsOf(new) /\ i \in IdsOf(old) THEN "both"
                        ELSE IF i \in IdsOf(new) THEN "left_only"
                        ELSE "right_only"]]

\* any(row[col_new] != row[col_old] for col in non-identity columns)
row_changed(m) == PyNotEqual(m.price_new, m.price_old)

\* a diff that forgets the rows present in the new snapshot only
keep_updated_no_left_only(m) == m.merge = "both" /\ row_changed(m)

\* the rows difference() keeps as updated_rows
keep_updated(m) ==
    IF m.merge = "both" THEN row_changed(m) ELSE m.merge = "left_only"

\* the rows difference() keeps as restored_rows
keep_removed(m) == m.merge = "right_only"

NewSide(m) == [id |-> m.id, price |-> m.price_new]
OldSide(m) == [id |-> m.id, price |-> m.price_old]

\* the two loops of difference over the merged rows: (only_new, only_old)
split_merged(merged) ==
    LET updated_rows == SelectSeq(merged, keep_updated)
        restored_rows == SelectSeq(merged, keep_removed)
    IN [only_new |-> [n \in 1..Len(updated_rows) |-> NewSide(updated_rows[n])],
        only_old |-> [n \in 1..Len(restored_rows) |-> OldSide(restored_rows[n])]]

\* DataProcessor.difference: both tables sorted, merged and split
difference(new, old) ==
    split_merged(merge_outer(sort_by_index_columns(new),
                             sort_by_index_columns(old)))

\* DBUploader.delete_rows: DELETE ... WHERE identity IN keys(df)
delete_rows(table, df) == {r \in table : r.id \notin IdsOf(df)}

\* an insert that leaves a row already in the table as it is
insert_only(table, df) ==
    table \cup {r \in RowsOf(df) : r.id \notin {x.id : x \in table}}

\* DBUploader.insert_or_update_data: INSERT ... ON CONFLICT (identity) DO UPDATE
insert_or_update_data(table, df) ==
    {r \in table : r.id \notin IdsOf(df)} \cup RowsOf(df)

\* the tables a parser builds: astype(table_dtypes) raises on a missing value
\* in an int column, then the rows are sorted by the identity columns
TablesOver(f) ==
    LET keys == SortedSeq(DOMAIN f)
    IN {[n \in 1..Len(keys) |-> [id |-> keys[n], price |-> f[keys[n]]]]}

BuiltTables ==
    {sort_by_index_columns(t) :
       t \in UNION {TablesOver(f) :
                     f \in UNION {[S -> 0..MaxVal] :
                                  S \in {X \in SUBSET (1..MaxTableId) :
                                           Cardinality(X) <= MaxRows}}}}

\* the row orders in which a SELECT without ORDER BY may return the rows
RowOrders(rows) ==
    {t \in [1..Cardinality(rows) -> rows] :
       \A i, j \in 1..Cardinality(rows) : i # j => t[i] # t[j]}

\* ------------------------------------------------------------------------
\* Files of data/processed
\* ------------------------------------------------------------------------
\* cols tells whether the file has a header line: load_csv gives a table
\* without columns for a file it cannot parse
NoFile == [exists |-> FALSE, cols |-> FALSE, rows |-> <<>>]
CsvFile(t) == [exists |-> TRUE, cols |-> TRUE, rows |-> t]

\* an empty file: pd.read_csv raises EmptyDataError and load_csv returns
\* pd.DataFrame(), no rows and no columns
BlankCsv == [exists |-> TRUE, cols |-> FALSE, rows |-> <<>>]

\* pd.merge(new_df, old_df, on=index_cols) raises KeyError when the
\* previous table has no identity column
merge_raises(prev) == prev.exists /\ ~prev.cols

\* a cleanup that leaves the delta files of an earlier run where they are
cleanup_keep(f) == f

\* DataProcessor.run, the loop over data/processed: every csv that is not
\* a snapshot <table>.csv is removed
cleanup(f) == NoFile

\* a save that writes both delta files whatever the diff holds
stage_deltas_both(d, updated, removed) ==
    [processed |-> NoFile, same |-> d.only_new = <<>> /\ d.only_old = <<>>,
     updated |-> CsvFile(d.only_new), removed |-> CsvFile(d.only_old)]

\* DataProcessor.save_if_changed, the branch of an existing previous
\* snapshot, for the outputs d of difference
stage_deltas(d, updated, removed) ==
    IF d.only_new = <<>> /\ d.only_old = <<>>
    THEN [processed |-> NoFile, updated |-> updated, removed |-> removed,
          same |-> TRUE]
    ELSE [processed |-> NoFile, same |-> FALSE,
          updated |-> IF d.only_new # <<>> THEN CsvFile(d.only_new)
                      ELSE updated,
          removed |-> IF d.only_old # <<>> THEN CsvFile(d.only_old)
                      ELSE removed]

\* a first save that leaves the _removed file of an earlier run behind
save_if_changed_keep_removed(df, processed, updated, removed) ==
    IF processed.exists
    THEN stage_deltas(difference(df, processed.rows), updated, removed)
    ELSE [processed |-> NoFile, updated |-> CsvFile(df), removed |-> removed,
          same |-> FALSE]

\* DataProcessor.save_if_changed on the files left by the cleanup: the
\* (processed, updated, removed) files it leaves, and whether it took the
\* branch of an unchanged table
save_if_changed(df, processed, updated, removed) ==
    IF processed.exists
    THEN stage_deltas(difference(df, processed.rows), updated, removed)
    ELSE [processed |-> NoFile, updated |-> CsvFile(df), removed |-> NoFile,
          same |-> FALSE]

\* ------------------------------------------------------------------------
\* Status cache entries and the CacheManager
\* ------------------------------------------------------------------------
Keys == 1..MaxKey
Fetchers == {"detail", "active_player", "review", "list"}

\* a cache value: absent, a dict {status, fail_count, collected_at} or a
\* bare string
NoEntry == [t |-> "none", status |-> "", fail_count |-> 0, at |-> 0]
SuccessEntry(at) ==
    [t |-> "dict", status |-> "success", fail_count |-> 0, at |-> at]
FailedEntry(n, at) ==
    [t |-> "dict", status |-> "failed", fail_count |-> n, at |-> at]
StrEntry(str) == [t |-> "str", status |-> str, fail_count |-> 0, at |-> 0]

EmptyCache == [k \in Keys |-> NoEntry]

\* a dict entry without collected_at, and one whose collected_at
\* datetime.fromisoformat cannot parse
NoStamp == 0 - 1
BadStamp == 0 - 2

\* a check of the age that takes an entry of exactly `hours` for stale
is_stale_inclusive(entry, hours, clock) ==
    IF entry.t # "dict" THEN TRUE
    ELSE IF entry.at < 0 THEN TRUE
    ELSE clock - entry.at >= hours

\* CacheManager.is_stale(key, hours) at the time clock: no entry and a bare
\* string have no collected_at; a missing or unparseable one gives True
is_stale(entry, hours, clock) ==
    IF entry.t # "dict" THEN TRUE
    ELSE IF entry.at < 0 THEN TRUE
    ELSE clock - entry.at > hours

\* CacheManager.record_fail: `entry = self.get(key) or {}` keeps a bare
\* string, and entry.get raises AttributeError
record_fail_raises(entry) == entry.t = "str"

\* CacheManager.record_fail(key); .get on a bare string raises and leaves
\* the entry as it was
record_fail(c, key, clock) ==
    IF c[key].t = "str" THEN c
    ELSE [c EXCEPT ![key] = FailedEntry(c[key].fail_count + 1, clock)]

\* a quarantine that needs one failure more
too_many_fails_late(entry) ==
    entry.t = "dict" /\ entry.status = "failed" /\ entry.fail_count > MaxAttempts

\* a limit that is reached one failure later
too_many_fails_over(entry, max_attempts) ==
    entry.t = "dict" /\ entry.status = "failed"
      /\ entry.fail_count > max_attempts

\* CacheManager.too_many_fails(key, max_attempts)
too_many_fails_at(entry, max_attempts) ==
    entry.t = "dict" /\ entry.status = "failed"
      /\ entry.fail_count >= max_attempts

\* CacheManager.too_many_fails(key), max_attempts left at its default
too_many_fails(entry) == too_many_fails_at(entry, MaxAttempts)

\* `cached and cached.get("status") == "success"`: what the guard of the
\* detail, active-player and list fetchers makes of an entry
GuardOf(entry) ==
    IF entry.t = "none" THEN "falsy"
    ELSE IF entry.t = "str" THEN "attribute_error"
    ELSE IF entry.status = "success" THEN "success" ELSE "other"

FreshHours(f) == IF f = "detail" THEN DetailFreshHours ELSE PlayerFreshHours

\* what a fetch of one key does before it would send its request:
\* "skip" (returns), "raise" (an exception leaves it) or "request"
\*   fetch_detail_data / fetch_active_player_data: the cached-success and
\*     the too_many_fails guards; .get on a bare string raises
\*   fetch_review_data: status_cache[app_id] == "success"
\*   scrape_steamcharts_page: the guard reads self.cache, an attribute the
\*     list fetcher does not have, once the entry is a success dict
before_request(f, entry, clock) ==
    IF f = "review"
    THEN IF entry.t = "str" /\ entry.status = "success" THEN "skip"
         ELSE "request"
    ELSE IF GuardOf(entry) = "attribute_error" THEN "raise"
    ELSE IF f = "list"
    THEN IF GuardOf(entry) = "success" THEN "raise" ELSE "request"
    ELSE IF GuardOf(entry) = "success" /\ ~is_stale(entry, FreshHours(f), clock)
    THEN "skip"
    ELSE IF too_many_fails(entry) THEN "skip"
    ELSE "request"

\* the answers a request can get
\*   ok: the data; neg: an answer without the data; nodata: an empty
\*   summary (review); exc: a timeout; http: an HTTP error status
Outcomes(f) ==
    IF f = "review" THEN {"ok", "neg", "nodata", "exc"}
    ELSE IF f = "active_player" THEN {"ok", "neg", "exc", "http"}
    ELSE {"ok", "neg", "exc"}

\* the cache after the answer o to the request for key
cache_after(f, c, key, o, clock) ==
    IF o = "ok" THEN [c EXCEPT ![key] = SuccessEntry(clock)]
    ELSE IF f = "review"
    THEN [c EXCEPT ![key] = StrEntry(IF o = "neg" THEN "failed"
                                     ELSE IF o = "nodata" THEN "no_data"
                                     ELSE "timeout")]
    ELSE IF f = "list"
    THEN [c EXCEPT ![key] = StrEntry(IF o = "neg" THEN "no_table"
                                     ELSE "timeout")]
    ELSE IF o = "http" /\ f = "active_player"
    THEN [c EXCEPT ![key] = StrEntry("http_error")]
    ELSE record_fail(c, key, clock)

\* max_retries of the five retry stages
max_retries(f, stage) ==
    IF stage = 1 THEN 3
    ELSE IF stage = 2 THEN (IF f = "detail" THEN 3 ELSE 2)
    ELSE 1

\* ------------------------------------------------------------------------
\* Output table, ledger and checkpoint of a fetcher
\* ------------------------------------------------------------------------
\* no row for the key
Absent == 0 - 1

EmptyRows == [k \in Keys |-> Absent]

\* the output csv: cols tells whether it has the appid column, which a file
\* written from an empty DataFrame has not; a row holds the time of its fetch
NoOutput == [exists |-> FALSE, cols |-> FALSE, rows |-> EmptyRows]
NoLedger == [exists |-> FALSE, ids |-> {}]

KeysIn(rows) == {k \in Keys : rows[k] # Absent}

\* pd.concat([old, new]).drop_duplicates(subset="appid"), keep="first"
keep_first(old, new) ==
    [k \in Keys |-> IF old[k] # Absent THEN old[k] ELSE new[k]]

\* drop_duplicates(subset="appid", keep="last")
keep_last(old, new) ==
    [k \in Keys |-> IF new[k] # Absent THEN new[k] ELSE old[k]]

\* save_checkpoint raises inside its try and saves nothing:
\*   review: pd.read_csv of a file without columns raises EmptyDataError
\*   detail, active_player: drop_duplicates(subset="appid") raises KeyError
\*     when neither the old file nor the buffer has the column
checkpoint_fails(f, out, buf) ==
    IF f = "review" THEN out.exists /\ ~out.cols
    ELSE out.exists /\ ~out.cols /\ buf = EmptyRows

\* the output file a successful save_checkpoint writes
checkpoint_output(f, out, buf) ==
    [exists |-> TRUE,
     cols |-> out.cols \/ buf # EmptyRows,
     rows |-> IF f = "active_player" THEN keep_last(out.rows, buf)
              ELSE keep_first(out.rows, buf)]

\* a save that forgets the status cache
cache_not_saved(f, file, mem, old) == file

\* the status cache a checkpoint saves: CacheManager.save writes the cache;
\* the review fetcher dumps a dict holding the loaded string keys and the
\* integer keys of this run, and the later integer key wins on load
cache_saved(f, file, mem, old) ==
    IF f = "review"
    THEN [k \in Keys |-> IF mem[k].t # "none" THEN mem[k] ELSE old[k]]
    ELSE mem

\* the buffer after a successful save_checkpoint: the detail fetcher keeps
\* parsed_data, the others reset their list
buffer_after_save(f, buf) == IF f = "detail" THEN buf ELSE EmptyRows

\* the inputs of a run: the list fetcher scrapes its fixed pages, the
\* others read a non-empty id list
Inputs(f) ==
    IF f = "list" THEN {SortedSeq(Keys)}
    ELSE {SortedSeq(S) : S \in (SUBSET Keys) \ {{}}}

SeqKeys(q) == {q[i] : i \in 1..Len(q)}

\* ------------------------------------------------------------------------
\* State of the reconciliation
\* ------------------------------------------------------------------------
VARIABLES
    new_df,     \* the table handed to difference / save_if_changed
    old_df,     \* the previous snapshot it is compared with
    only_new,   \* difference's added-or-changed output
    only_old,   \* difference's removed output
    db,         \* the rows of the relational table
    dpc,        \* "input", "diffed", "applied"
    processedFile,  \* data/processed/<table>.csv, the previous snapshot
    updatedFile,    \* data/processed/<table>_updated.csv
    removedFile,    \* data/processed/<table>_removed.csv
    ppc,        \* next step of the pipeline: "backup", "process", "upload"
    lastProc    \* what the last DataProcessor.run met (history)

\* State of a fetcher: its files, its process and the history of its runs
VARIABLES
    fk,           \* which fetcher this is
    now,          \* the clock, in hours
    runs,         \* processes started so far
    cacheFile,    \* the persisted status cache (json)
    outFile,      \* the persisted output table (csv)
    ledger,       \* the persisted failed-ID ledger (csv)
    pc,           \* "idle", "fetch", "after1", "stage", "finish", "done",
                  \* "raised", "killed"
    input,        \* the id list of the run
    cache,        \* the status cache in memory
    loaded,       \* review: the string-keyed entries loaded at start
    buffer,       \* the fetched-data buffer
    failed_list,
    errored_list,
    retry_ids,
    queue,        \* items fetch_in_parallel has still to go through
    inBatch,      \* items of the current batch already gone through
    stage,        \* 0 for the first pass, 1..5 for the retry stages
    round,        \* rounds of the current stage started
    attempt,      \* review: calls of the decorated fetch already made
    lastOp,       \* history: what the last fetch of a key did and got
    requested,    \* history: keys requested from the network in this run
    done,         \* history: keys the first pass has gone through
    staleAtStart, \* history: input keys cached success but stale at start
    allOk,        \* history: every item of this run succeeded so far
    prev,         \* history: the previous run
    warm,         \* history: this run repeats a run whose items all succeeded
    outAtStart,   \* history: the output table at the start of this run
    unresolved,   \* history: keys whose last request of this run failed
    kill,         \* history: the last termination after a checkpoint
    resumed,      \* history: whether this run restarts a terminated one, and
                  \* what that one had gone through and fetched
    quarantined   \* history: keys whose entry has met too_many_fails in
                  \* memory, in this run or an earlier one

\* State of the utilities exercised on their own
VARIABLES
    timestamps,   \* RateLimitManager.timestamps, the seconds of the signals
    seconds,      \* the time of the rate limiter, in seconds
    call          \* history: the last call of a function under study

\* State of the orchestration and of one thread pool
VARIABLES
    main,         \* main(): the step it is at, how each step ended, the logs
    pool          \* fetch_in_parallel with its executor and worker threads

diffVars == <<new_df, old_df, only_new, only_old, dpc>>
utilVars == <<timestamps, seconds, call>>
mainVars == <<main, pool>>
procVars == <<processedFile, updatedFile, removedFile, ppc, lastProc>>
fileVars == <<cacheFile, outFile, ledger>>
memVars == <<cache, loaded, buffer, failed_list, errored_list, retry_ids>>
ctlVars == <<queue, inBatch, stage, round, attempt>>
histVars == <<requested, done, staleAtStart, allOk, prev, warm, outAtStart,
              unresolved, kill, resumed, quarantined>>
fetchVars == <<fk, now, runs, fileVars, pc, input, memVars, ctlVars, lastOp,
               histVars>>

vars == <<diffVars, db, procVars, fetchVars, utilVars, mainVars>>

NoOp == [key |-> 0, pre |-> NoEntry, did |-> "none", out |-> "none"]
NoPrev == [clean |-> FALSE, input |-> <<>>]
NoKill == [input |-> <<>>, done |-> {}, succ |-> {}]
NoResume == [on |-> FALSE, done |-> {}, succ |-> {}]

\* the previous run as the next one has to know it: whether all its items
\* succeeded and it returned, and then its input
PrevRun(clean, inp) == IF clean THEN [clean |-> TRUE, input |-> inp] ELSE NoPrev

\* no fetcher is modelled
FetchIdle ==
    /\ fk = "none" /\ now = 0 /\ runs = 0
    /\ cacheFile = EmptyCache /\ outFile = NoOutput /\ ledger = NoLedger
    /\ pc = "idle" /\ input = <<>>
    /\ cache = EmptyCache /\ loaded = EmptyCache /\ buffer = EmptyRows
    /\ failed_list = {} /\ errored_list = {} /\ retry_ids = {}
    /\ queue = <<>> /\ inBatch = 0 /\ stage = 0 /\ round = 0 /\ attempt = 0
    /\ lastOp = NoOp
    /\ requested = {} /\ done = {} /\ staleAtStart = {} /\ allOk = TRUE
    /\ prev = NoPrev /\ warm = FALSE /\ outAtStart = NoOutput
    /\ unresolved = {}
    /\ kill = NoKill /\ resumed = NoResume
    /\ quarantined = {}

NoProc == [prev |-> FALSE, stale |-> FALSE, same |-> FALSE]

\* the pipeline has not touched data/processed
ProcIdle ==
    /\ processedFile = NoFile
    /\ updatedFile = NoFile
    /\ removedFile = NoFile
    /\ ppc = "backup"
    /\ lastProc = NoProc

\* no diff is being computed
DiffIdle ==
    /\ new_df = <<>>
    /\ old_df = <<>>
    /\ only_new = <<>>
    /\ only_old = <<>>
    /\ dpc = "input"

\* main() is not running, no pool is at work
NoMain == [env |-> "none", at |-> 0, ended |-> << >>, logs |-> {}]
NoPool == [at |-> "none", batch |-> 0, next |-> 0, task |-> << >>,
           writes |-> {}, returned |-> {}]

\* no call yet: the operation, its argument, the state it met, what it
\* returned and whether it raised
NoCall == [op |-> "none", arg |-> 0, pre |-> 0, ret |-> 0, raised |-> FALSE]

\* the utilities are not exercised
UtilIdle ==
    /\ timestamps = <<>>
    /\ seconds = 0
    /\ call = NoCall
    /\ main = NoMain
    /\ pool = NoPool

\* any two snapshots over the same columns: the new one sorted by its
\* parser, the previous one in the row order of the database
InitDiff ==
    /\ new_df \in SortedTables
    /\ old_df \in AllTables
    /\ only_new = <<>>
    /\ only_old = <<>>
    /\ db = RowsOf(old_df)
    /\ dpc = "input"
    /\ ProcIdle
    /\ UtilIdle
    /\ FetchIdle

\* difference(new_df, old_df, table)
Difference ==
    /\ dpc = "input"
    /\ LET d == difference(new_df, old_df)
       IN /\ only_new' = d.only_new
          /\ only_old' = d.only_old
    /\ dpc' = "diffed"
    /\ UNCHANGED <<new_df, old_df, db, procVars, fetchVars, utilVars, mainVars>>

\* the two deltas applied in the order of DBUploader.run: the removed rows
\* are deleted, then the added-or-changed rows are upserted
ApplyDeltas ==
    /\ dpc = "diffed"
    /\ db' = insert_or_update_data(delete_rows(db, only_old), only_new)
    /\ dpc' = "applied"
    /\ UNCHANGED <<new_df, old_df, only_new, only_old, procVars, fetchVars, utilVars, mainVars>>

NextDiff == Difference \/ ApplyDeltas

SpecDiff == InitDiff /\ [][NextDiff]_vars

\* ------------------------------------------------------------------------
\* The pipeline over one table: backup, DataProcessor.run, DBUploader.run
\* ------------------------------------------------------------------------
\* the table starts with any rows
InitProc ==
    /\ db \in {RowsOf(t) : t \in BuiltTables}
    /\ DiffIdle
    /\ ProcIdle
    /\ UtilIdle
    /\ FetchIdle

\* backup_tables_to_csv: SELECT * written to <table>.csv, in the row order
\* the database returns; a failure is printed and leaves the file as it was
backup_tables_to_csv ==
    /\ ppc = "backup"
    /\ \E ok \in BOOLEAN :
         processedFile' \in
           IF ok THEN {CsvFile(t) : t \in RowOrders(db)}
           ELSE {processedFile}
    /\ ppc' = "process"
    /\ UNCHANGED <<diffVars, db, updatedFile, removedFile, lastProc, fetchVars, utilVars, mainVars>>

\* DataProcessor.run for the table its parser has built
DataProcessor_run ==
    /\ ppc = "process"
    /\ \E df \in BuiltTables :
         \E s \in {save_if_changed(df, processedFile,
                                  cleanup(updatedFile), cleanup(removedFile))} :
            /\ new_df' = df
            /\ processedFile' = s.processed
            /\ updatedFile' = s.updated
            /\ removedFile' = s.removed
            /\ lastProc' = [prev |-> processedFile.exists,
                            stale |-> updatedFile.exists \/ removedFile.exists,
                            same |-> s.same]
    /\ ppc' = "upload"
    /\ UNCHANGED <<old_df, only_new, only_old, dpc, db, fetchVars, utilVars, mainVars>>

UploadOutcomes == {"ok", "dry_run", "delete_raises", "upsert_raises"}

\* DBUploader.run in one transaction: the removed file first, then the
\* updated file; an exception rolls the table back and is raised again
DBUploader_run ==
    /\ ppc = "upload"
    /\ \E o \in UploadOutcomes :
         /\ db' = IF o = "ok"
                  THEN insert_or_update_data(
                         delete_rows(db, removedFile.rows), updatedFile.rows)
                  ELSE db
         /\ removedFile' = IF o \in {"ok", "upsert_raises"} THEN NoFile
                           ELSE removedFile
         /\ updatedFile' = IF o = "ok" THEN NoFile ELSE updatedFile
    /\ ppc' = "backup"
    /\ UNCHANGED <<diffVars, processedFile, lastProc, fetchVars, utilVars, mainVars>>

NextProc == backup_tables_to_csv \/ DataProcessor_run \/ DBUploader_run

SpecProc == InitProc /\ [][NextProc]_vars

\* ------------------------------------------------------------------------
\* save_if_changed on its own, on any files of data/processed
\* ------------------------------------------------------------------------
\* a delta file an earlier run has left
StaleDelta == <<[id |-> 1, price |-> 0]>>

\* the table of a parser, a previous snapshot that is absent, empty or any
\* table, and delta files that are absent or left by an earlier run
InitSave ==
    /\ new_df \in BuiltTables
    /\ processedFile \in {NoFile, BlankCsv} \cup {CsvFile(t) : t \in AllTables}
    /\ updatedFile \in {NoFile, CsvFile(StaleDelta)}
    /\ removedFile \in {NoFile, CsvFile(StaleDelta)}
    /\ old_df = <<>> /\ only_new = <<>> /\ only_old = <<>>
    /\ dpc = "input" /\ db = {}
    /\ ppc = "process" /\ lastProc = NoProc
    /\ FetchIdle
    /\ UtilIdle

\* save_if_changed(df, filename, table_name): the previous snapshot is
\* loaded, compared, and the files are written and removed; an exception
\* of difference leaves the files as they are
SaveIfChanged ==
    /\ call.op = "none"
    /\ IF merge_raises(processedFile)
       THEN /\ call' = [op |-> "save_if_changed", arg |-> new_df,
                        pre |-> [processed |-> processedFile,
                                 updated |-> updatedFile,
                                 removed |-> removedFile],
                        ret |-> FALSE, raised |-> TRUE]
            /\ UNCHANGED <<old_df, only_new, only_old, processedFile,
                           updatedFile, removedFile>>
       ELSE \E s \in {save_if_changed(new_df, processedFile,
                                      updatedFile, removedFile)} :
            \E d \in {difference(new_df, processedFile.rows)} :
              /\ old_df' = processedFile.rows
              /\ only_new' = IF processedFile.exists THEN d.only_new ELSE <<>>
              /\ only_old' = IF processedFile.exists THEN d.only_old ELSE <<>>
              /\ processedFile' = s.processed
              /\ updatedFile' = s.updated
              /\ removedFile' = s.removed
              /\ call' = [op |-> "save_if_changed", arg |-> new_df,
                          pre |-> [processed |-> processedFile,
                                   updated |-> updatedFile,
                                   removed |-> removedFile],
                          ret |-> ~s.same, raised |-> FALSE]
    /\ UNCHANGED <<new_df, dpc, db, ppc, lastProc, fetchVars, timestamps,
                   seconds, mainVars>>

NextSave == SaveIfChanged

SpecSave == InitSave /\ [][NextSave]_vars

\* ------------------------------------------------------------------------
\* A fetcher over its runs
\* ------------------------------------------------------------------------
\* an empty data directory and one of the fetchers whose runs a quarantine
\* or a guard cuts short
InitFetch ==
    /\ fk \in Fetchers \ {"review"}
    /\ now = 0 /\ runs = 0
    /\ cacheFile = EmptyCache /\ outFile = NoOutput /\ ledger = NoLedger
    /\ pc = "idle" /\ input = <<>>
    /\ cache = EmptyCache /\ loaded = EmptyCache /\ buffer = EmptyRows
    /\ failed_list = {} /\ errored_list = {} /\ retry_ids = {}
    /\ queue = <<>> /\ inBatch = 0 /\ stage = 0 /\ round = 0 /\ attempt = 0
    /\ lastOp = NoOp
    /\ requested = {} /\ done = {} /\ staleAtStart = {} /\ allOk = TRUE
    /\ prev = NoPrev /\ warm = FALSE /\ outAtStart = NoOutput
    /\ unresolved = {}
    /\ kill = NoKill /\ resumed = NoResume
    /\ quarantined = {}
    /\ db = {}
    /\ DiffIdle
    /\ ProcIdle
    /\ UtilIdle

Stopped == {"idle", "done", "raised", "killed"}

\* get_collected_appids of the review fetcher: the ids of the output
\* table; a file that cannot be parsed gives none
collected_appids(f, out) ==
    IF f = "review" /\ out.exists /\ out.cols THEN KeysIn(out.rows) ELSE {}

\* the list comprehension of scrape_steamcharts_parallel calls .get on
\* every cached entry: a bare string raises, and run's handler ends the run
pages_raise(f, c) == f = "list" /\ \E k \in Keys : c[k].t = "str"

\* pages_to_scrape of the list fetcher: no entry, no success, or stale
page_due(entry, clock) ==
    IF entry.t = "none" THEN TRUE
    ELSE IF entry.status # "success" THEN TRUE
    ELSE is_stale(entry, PlayerFreshHours, clock)

\* the items of the first pass
first_pass(f, inp, file, out, clock) ==
    IF f = "list"
    THEN SortedSeq({k \in SeqKeys(inp) : page_due(file[k], clock)})
    ELSE SortedSeq(SeqKeys(inp) \ collected_appids(f, out))

\* a process starts: the fetcher is constructed, loads its cache and run
\* begins its first pass
StartRun ==
    /\ pc \in Stopped
    /\ runs < MaxRuns
    /\ runs' = runs + 1
    /\ \E inp \in Inputs(fk) :
         /\ input' = inp
         /\ queue' = IF pages_raise(fk, cacheFile) THEN <<>>
                     ELSE first_pass(fk, inp, cacheFile, outFile, now)
         /\ pc' = IF pages_raise(fk, cacheFile) THEN "done"
                  ELSE IF fk # "list" /\ queue' = <<>> THEN "after1"
                  ELSE "fetch"
         /\ staleAtStart' =
              {k \in SeqKeys(inp) :
                 /\ GuardOf(cacheFile[k]) = "success"
                 /\ is_stale(cacheFile[k], FreshHours(fk), now)}
         /\ warm' = (prev.clean /\ prev.input = inp)
         /\ resumed' = IF pc = "killed" /\ kill.input = inp
                       THEN [on |-> TRUE, done |-> kill.done,
                             succ |-> kill.succ]
                       ELSE NoResume
         /\ outAtStart' = IF warm' THEN outFile ELSE NoOutput
    /\ cache' = IF fk = "review" THEN EmptyCache ELSE cacheFile
    /\ loaded' = IF fk = "review" THEN cacheFile ELSE EmptyCache
    /\ buffer' = EmptyRows
    /\ failed_list' = {} /\ errored_list' = {} /\ retry_ids' = {}
    /\ inBatch' = 0 /\ stage' = 0 /\ round' = 0 /\ attempt' = 0
    /\ lastOp' = NoOp
    /\ requested' = {} /\ done' = {} /\ unresolved' = {}
    /\ allOk' = ~pages_raise(fk, cacheFile)
    /\ prev' = NoPrev
    /\ UNCHANGED <<fk, now, fileVars, kill, quarantined,
                   diffVars, db, procVars, utilVars, mainVars>>

\* batch_size of the running fetch_in_parallel; the list fetcher submits
\* all its pages at once
CurBatchSize ==
    IF fk = "list" THEN Len(queue) + inBatch
    ELSE IF stage = 0 THEN BatchSize ELSE RetryBatchSize

\* one item of the batch: fetch_detail_data, fetch_active_player_data,
\* fetch_review_data under its retry decorator, scrape_steamcharts_page;
\* an exception is caught by fetch_in_parallel
FetchItem ==
    /\ pc = "fetch"
    /\ queue # <<>>
    /\ inBatch < CurBatchSize
    /\ LET k == Head(queue)
           did == before_request(fk, cache[k], now)
       IN \E o \in (IF did = "request" THEN Outcomes(fk) ELSE {"none"}) :
            LET again == /\ fk = "review" /\ o = "exc"
                         /\ attempt + 1 < ReviewCallAttempts
            IN /\ cache' = IF did = "request"
                           THEN cache_after(fk, cache, k, o, now) ELSE cache
               /\ buffer' = IF o = "ok" THEN [buffer EXCEPT ![k] = now]
                            ELSE buffer
               /\ failed_list' = IF o \in {"neg", "nodata"}
                                 THEN failed_list \cup {k} ELSE failed_list
               /\ errored_list' = IF o \in {"exc", "http"}
                                  THEN errored_list \cup {k} ELSE errored_list
               /\ queue' = IF again THEN queue ELSE Tail(queue)
               /\ inBatch' = IF again THEN inBatch ELSE inBatch + 1
               /\ attempt' = IF again THEN attempt + 1 ELSE 0
               /\ lastOp' = [key |-> k, pre |-> cache[k], did |-> did,
                             out |-> o]
               /\ requested' = IF did = "request" THEN requested \cup {k}
                               ELSE requested
               /\ unresolved' = IF did # "request" THEN unresolved
                                ELSE IF o = "ok" THEN unresolved \ {k}
                                ELSE unresolved \cup {k}
               /\ allOk' = IF did = "request" THEN allOk /\ o = "ok"
                           ELSE allOk /\ did = "skip"
                                      /\ GuardOf(cache[k]) = "success"
    /\ done' = IF stage = 0 THEN done \cup {Head(queue)} ELSE done
    /\ quarantined' = quarantined \cup {k \in Keys : too_many_fails(cache'[k])}
    /\ UNCHANGED <<fk, now, runs, fileVars, pc, input, loaded, retry_ids,
                   stage, round, staleAtStart, prev, warm, outAtStart, kill,
                   resumed, diffVars, db, procVars, utilVars, mainVars>>

\* the process is gone: nothing of its memory is left
ProcessEnds ==
    /\ cache' = EmptyCache /\ loaded' = EmptyCache /\ buffer' = EmptyRows
    /\ failed_list' = {} /\ errored_list' = {} /\ retry_ids' = {}
    /\ queue' = <<>> /\ inBatch' = 0 /\ stage' = 0 /\ round' = 0
    /\ attempt' = 0
    /\ lastOp' = NoOp

\* the ledger after the final `if self.failed_list or self.errored_list`
ledger_after(led, failed, errored) ==
    IF failed \cup errored # {}
    THEN [exists |-> TRUE, ids |-> failed \cup errored]
    ELSE led

\* save_checkpoint after a batch; save_steamcharts_results after the pages
\* of the list fetcher
Checkpoint ==
    /\ pc = "fetch"
    /\ IF fk = "list" THEN queue = <<>>
       ELSE inBatch > 0 /\ (inBatch = CurBatchSize \/ queue = <<>>)
    /\ IF fk = "list"
       THEN /\ outFile' = [exists |-> TRUE, cols |-> TRUE, rows |-> buffer]
            /\ cacheFile' = cache
            /\ ledger' = ledger_after(ledger, failed_list, {})
            /\ buffer' = buffer
       ELSE /\ outFile' = IF checkpoint_fails(fk, outFile, buffer) THEN outFile
                          ELSE checkpoint_output(fk, outFile, buffer)
            /\ cacheFile' = IF checkpoint_fails(fk, outFile, buffer)
                            THEN cacheFile
                            ELSE cache_saved(fk, cacheFile, cache, loaded)
            /\ buffer' = IF checkpoint_fails(fk, outFile, buffer) THEN buffer
                         ELSE buffer_after_save(fk, buffer)
            /\ ledger' = ledger
    /\ pc' = IF fk = "list" THEN "finish"
             ELSE IF queue # <<>> THEN "fetch"
             ELSE IF stage = 0 THEN "after1" ELSE "stage"
    /\ inBatch' = 0
    /\ lastOp' = NoOp
    /\ UNCHANGED <<fk, now, runs, input, cache, loaded, failed_list,
                   errored_list, retry_ids, queue, stage, round, attempt,
                   histVars, diffVars, db, procVars, utilVars, mainVars>>

\* keys whose cache value equals the string "failed"
failed_ids_from_cache(c, old) ==
    {k \in Keys : c[k] = StrEntry("failed") \/ old[k] = StrEntry("failed")}

\* the ids of the ledger file, if there is one
failed_ids_from_file(led) == IF led.exists THEN led.ids ELSE {}

\* detail: self.cache.get(appid)["status"] raises TypeError for an id
\* without a dict entry
retry_filter_raises(f, c, ids) ==
    f = "detail" /\ \E k \in ids : c[k].t # "dict"

\* the filter "already succeeded ids are left out": the detail fetcher
\* compares the status, the others compare the whole entry with "success"
retry_filter(f, c, ids) ==
    IF f = "detail" THEN {k \in ids : c[k].status # "success"}
    ELSE {k \in ids : c[k] # StrEntry("success")}

\* run between the first pass and the retry stages: retry_ids is built
AfterFirstPass ==
    /\ pc = "after1"
    /\ LET ids == failed_ids_from_cache(cache, loaded)
                    \cup failed_ids_from_file(ledger)
       IN IF retry_filter_raises(fk, cache, ids)
          THEN /\ ProcessEnds
               /\ pc' = "raised"
               /\ prev' = NoPrev
          ELSE /\ retry_ids' = retry_filter(fk, cache, ids)
               /\ stage' = 1
               /\ round' = 0
               /\ pc' = "stage"
               /\ lastOp' = NoOp
               /\ UNCHANGED <<cache, loaded, buffer, failed_list,
                              errored_list, queue, inBatch, attempt, prev>>
    /\ UNCHANGED <<fk, now, runs, fileVars, input, requested, done,
                   staleAtStart, allOk, warm, outAtStart, unresolved, kill,
                   resumed, quarantined,
                   diffVars, db, procVars, utilVars, mainVars>>

\* the list a retry stage works on
Targets ==
    IF stage \in {1, 3} THEN errored_list
    ELSE IF stage \in {2, 4} THEN failed_list
    ELSE retry_ids

\* a loop that goes on over an empty target list
round_due_nonstop(targets, i, limit) == i < limit

\* retry_loop: `for i in range(max_retries): if not target_list: break`
round_due(targets, i, limit) == targets # {} /\ i < limit

\* the loop over retry_stages and retry_loop: a round takes the targets,
\* clears the list and fetches them; a stage ends when its list is empty
\* or its rounds are used up
StageStep ==
    /\ pc = "stage"
    /\ IF round_due(Targets, round, max_retries(fk, stage))
       THEN /\ queue' = SortedSeq(Targets)
            /\ errored_list' = IF stage \in {1, 3} THEN {} ELSE errored_list
            /\ failed_list' = IF stage \in {2, 4} THEN {} ELSE failed_list
            /\ retry_ids' = IF stage = LastStage THEN {} ELSE retry_ids
            /\ round' = round + 1
            /\ pc' = "fetch"
            /\ stage' = stage
       ELSE /\ stage' = IF stage < LastStage THEN stage + 1 ELSE stage
            /\ round' = 0
            /\ pc' = IF stage < LastStage THEN "stage" ELSE "finish"
            /\ UNCHANGED <<queue, errored_list, failed_list, retry_ids>>
    /\ lastOp' = NoOp
    /\ UNCHANGED <<fk, now, runs, fileVars, input, cache, loaded, buffer,
                   inBatch, attempt, histVars, diffVars, db, procVars, utilVars, mainVars>>

\* the end of run raises before the ledger is written: parsed_df["appid"]
\* (detail) and pd.read_csv (review) on an output file without columns
finish_raises(f, out) ==
    f \in {"detail", "review"} /\ out.exists /\ ~out.cols

\* upload_to_s3 raises FileNotFoundError for a missing output file
upload_raises(f, out) == f \in {"detail", "active_player"} /\ ~out.exists

\* the detail fetcher saves its output again, cut down to the input ids
final_output(f, out, inp) ==
    IF f = "detail" /\ out.exists
    THEN [out EXCEPT !.rows = [k \in Keys |-> IF k \in SeqKeys(inp)
                                              THEN out.rows[k] ELSE Absent]]
    ELSE out

\* the end of run: final clean-up, ledger, upload
Finish ==
    /\ pc = "finish"
    /\ IF finish_raises(fk, outFile)
       THEN /\ pc' = "raised"
            /\ UNCHANGED <<outFile, ledger>>
       ELSE /\ pc' = IF upload_raises(fk, outFile) THEN "raised" ELSE "done"
            /\ outFile' = final_output(fk, outFile, input)
            /\ ledger' = IF fk = "list" THEN ledger
                         ELSE ledger_after(ledger, failed_list, errored_list)
    /\ prev' = PrevRun(allOk /\ pc' = "done", input)
    /\ ProcessEnds
    /\ UNCHANGED <<fk, now, runs, cacheFile, input, requested, done,
                   staleAtStart, allOk, warm, outAtStart, unresolved, kill,
                   resumed, quarantined,
                   diffVars, db, procVars, utilVars, mainVars>>

\* the process is terminated right after a checkpoint of the first pass
Kill ==
    /\ pc \in {"fetch", "after1"}
    /\ fk # "list"
    /\ stage = 0 /\ inBatch = 0 /\ done # {}
    /\ kill' = [input |-> input, done |-> done,
                succ |-> {k \in done : GuardOf(cache[k]) = "success"}]
    /\ prev' = NoPrev
    /\ pc' = "killed"
    /\ ProcessEnds
    /\ UNCHANGED <<fk, now, runs, fileVars, input, requested, done,
                   staleAtStart, allOk, warm, outAtStart, unresolved, resumed,
                   quarantined,
                   diffVars, db, procVars, utilVars, mainVars>>

\* time passes between two runs: the next run is no longer one that comes
\* right after the last
Tick ==
    /\ pc \in Stopped
    /\ runs > 0
    /\ runs < MaxRuns
    /\ now < MaxNow
    /\ now' = now + TickHours
    /\ prev' = NoPrev
    /\ kill' = NoKill
    /\ UNCHANGED <<fk, runs, fileVars, pc, input, memVars, ctlVars, lastOp,
                   requested, done, staleAtStart, allOk, warm, outAtStart,
                   unresolved, resumed, quarantined,
                   diffVars, db, procVars, utilVars, mainVars>>

NextFetch ==
    \/ StartRun
    \/ FetchItem
    \/ Checkpoint
    \/ AfterFirstPass
    \/ StageStep
    \/ Finish
    \/ Kill
    \/ Tick

SpecFetch == InitFetch /\ [][NextFetch]_vars

\* the review fetcher, which has no quarantine, on its own
InitReview ==
    /\ fk = "review"
    /\ now = 0 /\ runs = 0
    /\ cacheFile = EmptyCache /\ outFile = NoOutput /\ ledger = NoLedger
    /\ pc = "idle" /\ input = <<>>
    /\ cache = EmptyCache /\ loaded = EmptyCache /\ buffer = EmptyRows
    /\ failed_list = {} /\ errored_list = {} /\ retry_ids = {}
    /\ queue = <<>> /\ inBatch = 0 /\ stage = 0 /\ round = 0 /\ attempt = 0
    /\ lastOp = NoOp
    /\ requested = {} /\ done = {} /\ staleAtStart = {} /\ allOk = TRUE
    /\ prev = NoPrev /\ warm = FALSE /\ outAtStart = NoOutput
    /\ unresolved = {}
    /\ kill = NoKill /\ resumed = NoResume
    /\ quarantined = {}
    /\ db = {}
    /\ DiffIdle
    /\ ProcIdle
    /\ UtilIdle

SpecReview == InitReview /\ [][NextFetch]_vars

\* ------------------------------------------------------------------------
\* The CacheManager on its own
\* ------------------------------------------------------------------------
\* fail_count values a loaded cache holds
MaxFails == 3

\* the values a cache file gives a key: none, a bare status string, a
\* success or failed dict collected at hour 0, without collected_at or with
\* one that cannot be parsed
LoadedEntries ==
    {NoEntry, StrEntry("timeout")}
      \cup {SuccessEntry(at) : at \in {0, NoStamp, BadStamp}}
      \cup {FailedEntry(n, 0) : n \in 1..MaxFails}

\* the arguments of is_stale and of too_many_fails
HoursArgs == {PlayerFreshHours, TickHours, DetailFreshHours}
AttemptArgs == 1..(MaxAttempts + 1)

InitCache ==
    /\ cache \in [Keys -> LoadedEntries]
    /\ call = NoCall
    /\ now = 0
    /\ fk = "none" /\ runs = 0
    /\ cacheFile = EmptyCache /\ outFile = NoOutput /\ ledger = NoLedger
    /\ pc = "idle" /\ input = <<>>
    /\ loaded = EmptyCache /\ buffer = EmptyRows
    /\ failed_list = {} /\ errored_list = {} /\ retry_ids = {}
    /\ queue = <<>> /\ inBatch = 0 /\ stage = 0 /\ round = 0 /\ attempt = 0
    /\ lastOp = NoOp
    /\ requested = {} /\ done = {} /\ staleAtStart = {} /\ allOk = TRUE
    /\ prev = NoPrev /\ warm = FALSE /\ outAtStart = NoOutput
    /\ unresolved = {}
    /\ kill = NoKill /\ resumed = NoResume
    /\ quarantined = {}
    /\ db = {}
    /\ timestamps = <<>> /\ seconds = 0
    /\ main = NoMain /\ pool = NoPool
    /\ DiffIdle
    /\ ProcIdle

\* what a call of the CacheManager leaves alone
CacheFrame ==
    UNCHANGED <<fk, runs, fileVars, pc, input, loaded, buffer, failed_list,
                errored_list, retry_ids, ctlVars, lastOp, histVars, diffVars,
                db, procVars, timestamps, seconds, mainVars>>

\* cache.record_fail(key)
CallRecordFail ==
    \E key \in Keys :
      /\ cache[key].fail_count <= MaxFails
      /\ cache' = record_fail(cache, key, now)
      /\ call' = [op |-> "record_fail", arg |-> key, pre |-> cache,
                  ret |-> 0, raised |-> record_fail_raises(cache[key])]
      /\ UNCHANGED now
      /\ CacheFrame

\* cache.too_many_fails(key, max_attempts)
CallTooManyFails ==
    \E key \in Keys, n \in AttemptArgs :
      /\ call' = [op |-> "too_many_fails", arg |-> <<key, n>>, pre |-> cache,
                  ret |-> too_many_fails_at(cache[key], n), raised |-> FALSE]
      /\ UNCHANGED <<cache, now>>
      /\ CacheFrame

\* cache.is_stale(key, hours)
CallIsStale ==
    \E key \in Keys, h \in HoursArgs :
      /\ call' = [op |-> "is_stale", arg |-> <<key, h>>, pre |-> cache,
                  ret |-> is_stale(cache[key], h, now), raised |-> FALSE]
      /\ UNCHANGED <<cache, now>>
      /\ CacheFrame

\* cache.set(key, {"status": "success"}): collected_at is stamped
CallSet ==
    \E key \in Keys :
      /\ cache' = [cache EXCEPT ![key] = SuccessEntry(now)]
      /\ call' = [op |-> "set", arg |-> key, pre |-> cache, ret |-> 0,
                  raised |-> FALSE]
      /\ UNCHANGED now
      /\ CacheFrame

\* time passes; what the last call returned is of an earlier hour
CacheTick ==
    /\ now < MaxNow
    /\ now' = now + TickHours
    /\ call' = NoCall
    /\ UNCHANGED cache
    /\ CacheFrame

NextCache ==
    \/ CallRecordFail
    \/ CallTooManyFails
    \/ CallIsStale
    \/ CallSet
    \/ CacheTick

SpecCache == InitCache /\ [][NextCache]_vars

\* ------------------------------------------------------------------------
\* The RateLimitManager on its own
\* ------------------------------------------------------------------------
\* RateLimitManager(window_seconds=60, threshold=5, initial_backoff=5,
\* max_backoff=150), as every fetcher constructs it
window_seconds == 60
threshold == 5
initial_backoff == 5
max_backoff == 150

\* the limiter is asked for at most MaxSignals signals, the time runs to
\* MaxSeconds in steps of TickSeconds
MaxSignals == 6
MaxSeconds == 120
TickSeconds == 20

\* backoff and delay values are counted in tenths of a second
Tenths == 10
\* min(base_delay + count * 0.3, 3.0)
DelayPerSignal == 3
MaxDelay == 30
\* base_delay as the fetchers pass it: 0.5 and 1 second
BaseDelays == {5, 10}

RECURSIVE Pow2(_)
Pow2(n) == IF n = 0 THEN 1 ELSE 2 * Pow2(n - 1)

Min(a, b) == IF a <= b THEN a ELSE b

\* a limiter that forgets the earlier signals at every new one
record_rate_limit_alone(ts, t) == <<t>>

\* record_rate_limit at the time t: the timestamp is appended and the
\* timestamps of window_seconds ago and older are dropped
record_rate_limit(ts, t) ==
    SelectSeq(Append(ts, t), LAMBDA x : t - x < window_seconds)

\* a backoff that ignores the threshold
get_backoff_time_no_threshold(count) ==
    Min((Tenths * initial_backoff * Pow2(count)) \div 2, Tenths * max_backoff)

\* get_backoff_time for count = len(self.timestamps), in tenths of a
\* second: initial_backoff * 2 ** (count - 1) is 2.5 seconds for count = 0
get_backoff_time(count) ==
    IF count >= threshold THEN Tenths * max_backoff
    ELSE Min((Tenths * initial_backoff * Pow2(count)) \div 2,
             Tenths * max_backoff)

\* should_slow_down
should_slow_down(ts) == Len(ts) > 0

\* get_current_delay(base_delay), in tenths of a second
get_current_delay(ts, base_delay) ==
    IF Len(ts) = 0 THEN base_delay
    ELSE Min(base_delay + Len(ts) * DelayPerSignal, MaxDelay)

InitRate ==
    /\ timestamps = <<>>
    /\ seconds = 0
    /\ call = NoCall
    /\ main = NoMain
    /\ pool = NoPool
    /\ db = {}
    /\ DiffIdle
    /\ ProcIdle
    /\ FetchIdle

RateFrame == UNCHANGED <<diffVars, db, procVars, fetchVars, mainVars>>

\* rate_limit_manager.record_rate_limit()
CallRecordRateLimit ==
    /\ Len(timestamps) < MaxSignals
    /\ timestamps' = record_rate_limit(timestamps, seconds)
    /\ call' = [op |-> "record_rate_limit", arg |-> seconds,
                pre |-> timestamps, ret |-> Len(timestamps'),
                raised |-> FALSE]
    /\ UNCHANGED seconds
    /\ RateFrame

\* rate_limit_manager.get_backoff_time()
CallGetBackoffTime ==
    /\ call' = [op |-> "get_backoff_time", arg |-> seconds,
                pre |-> timestamps,
                ret |-> get_backoff_time(Len(timestamps)), raised |-> FALSE]
    /\ UNCHANGED <<timestamps, seconds>>
    /\ RateFrame

\* rate_limit_manager.should_slow_down()
CallShouldSlowDown ==
    /\ call' = [op |-> "should_slow_down", arg |-> seconds,
                pre |-> timestamps, ret |-> should_slow_down(timestamps),
                raised |-> FALSE]
    /\ UNCHANGED <<timestamps, seconds>>
    /\ RateFrame

\* rate_limit_manager.get_current_delay(base_delay)
CallGetCurrentDelay ==
    \E base_delay \in BaseDelays :
      /\ call' = [op |-> "get_current_delay", arg |-> base_delay,
                  pre |-> timestamps,
                  ret |-> get_current_delay(timestamps, base_delay),
                  raised |-> FALSE]
      /\ UNCHANGED <<timestamps, seconds>>
      /\ RateFrame

\* time passes; what the last call returned is of an earlier second
RateTick ==
    /\ seconds < MaxSeconds
    /\ seconds' = seconds + TickSeconds
    /\ call' = NoCall
    /\ UNCHANGED timestamps
    /\ RateFrame

NextRate ==
    \/ CallRecordRateLimit
    \/ CallGetBackoffTime
    \/ CallShouldSlowDown
    \/ CallGetCurrentDelay
    \/ RateTick

SpecRate == InitRate /\ [][NextRate]_vars

\* ------------------------------------------------------------------------
\* The NOT NULL filter on its own
\* ------------------------------------------------------------------------
\* a frame of the filter has some of the columns FrameColumns, at most
\* MaxFrameRows rows, and cells that hold 0 or the missing value
MaxFrameRows == 2
FrameColumns == {"id", "price", "title"}
FrameCells == {0, NaN}
TableNames == {"games", "prices"}

Frame(cols, rows) == [cols |-> cols, rows |-> rows]

RowsOver(cols) == [cols -> FrameCells]

FramesOver(cols) ==
    IF cols = {} THEN {Frame({}, <<>>)}
    ELSE {Frame(cols, rows) :
            rows \in UNION {[1..n -> RowsOver(cols)] : n \in 0..MaxFrameRows}}

Frames == UNION {FramesOver(cols) : cols \in SUBSET FrameColumns}

\* a not_null_map gives some of the tables their required columns; the map
\* of no table stands for None and for {} alike
NotNullMaps ==
    UNION {[tables -> SUBSET FrameColumns] : tables \in SUBSET TableNames}

\* df.dropna(subset=cols)
dropna(df, cols) ==
    Frame(df.cols, SelectSeq(df.rows, LAMBDA r : \A c \in cols : r[c] # NaN))

\* a filter that drops the rows with a null in any column
drop_null_any_column(table_name, df, not_null_map) == dropna(df, df.cols)

\* drop_null_required_fields(table_name, df, not_null_map)
drop_null_required_fields(table_name, df, not_null_map) ==
    LET required_cols == IF table_name \in DOMAIN not_null_map
                         THEN not_null_map[table_name] ELSE {}
        existing_required_cols == required_cols \cap df.cols
    IN IF existing_required_cols = {} THEN df
       ELSE dropna(df, existing_required_cols)

\* DataProcessor.apply_not_null_filter(df, table_name)
apply_not_null_filter(df, table_name, not_null_map) ==
    IF DOMAIN not_null_map # {}
    THEN drop_null_required_fields(table_name, df, not_null_map)
    ELSE df

InitNull ==
    /\ new_df \in Frames
    /\ old_df = <<>> /\ only_new = <<>> /\ only_old = <<>>
    /\ dpc = "input" /\ db = {}
    /\ ProcIdle
    /\ FetchIdle
    /\ UtilIdle

NullFrame ==
    UNCHANGED <<old_df, only_new, only_old, dpc, db, procVars, fetchVars,
                timestamps, seconds, mainVars>>

\* df = self.apply_not_null_filter(df, table_name)
ApplyNotNullFilter ==
    /\ call.op = "none"
    /\ \E table_name \in TableNames, not_null_map \in NotNullMaps :
         /\ new_df' = apply_not_null_filter(new_df, table_name, not_null_map)
         /\ call' = [op |-> "apply_not_null_filter",
                     arg |-> <<table_name, not_null_map>>,
                     pre |-> new_df, ret |-> new_df', raised |-> FALSE]
    /\ NullFrame

\* the filter applied once more, to its own result
ApplyNotNullFilterAgain ==
    /\ call.op = "apply_not_null_filter"
    /\ new_df' = apply_not_null_filter(new_df, call.arg[1], call.arg[2])
    /\ call' = [op |-> "apply_not_null_filter_again", arg |-> call.arg,
                pre |-> new_df, ret |-> new_df', raised |-> FALSE]
    /\ NullFrame

NextNull ==
    \/ ApplyNotNullFilter
    \/ ApplyNotNullFilterAgain

SpecNull == InitNull /\ [][NextNull]_vars

\* ------------------------------------------------------------------------
\* main(): the steps of the pipeline
\* ------------------------------------------------------------------------
\* the statements of the try block in their order; "futures" submits the
\* review and the active-player run to an executor of two workers
MainOrder == <<"list", "detail", "filter", "futures", "itad_id",
               "itad_price", "backup", "process", "upload">>
Futures == {"review", "active_player"}
Units == (SeqKeys(MainOrder) \ {"futures"}) \cup Futures
MainEnd == Len(MainOrder) + 1

\* the place of a unit in the order of main
PlaceOf(u) ==
    CHOOSE i \in 1..Len(MainOrder) :
      MainOrder[i] = (IF u \in Futures THEN "futures" ELSE u)

\* how the call of a unit can end for main: the run of the list and of the
\* two ITAD fetchers is one try block whose handler logs to the fetcher's
\* log and returns ("caught"); the others let an exception out ("raised")
Ends(u) ==
    IF u \in {"list", "itad_id", "itad_price"} THEN {"ok", "caught"}
    ELSE {"ok", "raised"}

\* ENV=prod and ENV=dev skip the collection
FirstStep(env) == IF env = "other" THEN 1 ELSE PlaceOf("backup")

InitMain ==
    /\ main \in {[env |-> e, at |-> FirstStep(e),
                  ended |-> [u \in Units |-> "none"], logs |-> {}] :
                 e \in {"prod", "dev", "other"}}
    /\ pool = NoPool
    /\ timestamps = <<>> /\ seconds = 0 /\ call = NoCall
    /\ db = {}
    /\ DiffIdle
    /\ ProcIdle
    /\ FetchIdle

MainFrame == UNCHANGED <<diffVars, db, procVars, fetchVars, utilVars, pool>>

\* a statement of the try block other than the executor: an exception
\* leaves the block for `except Exception` and `finally`
MainStep ==
    /\ main.at < MainEnd
    /\ MainOrder[main.at] # "futures"
    /\ \E o \in Ends(MainOrder[main.at]) :
         main' = [main EXCEPT
                    !.ended[MainOrder[main.at]] = o,
                    !.logs = IF o = "raised" THEN @ \cup {<<"main", "pipeline">>}
                             ELSE IF o = "caught"
                             THEN @ \cup {<<"fetcher", MainOrder[main.at]>>}
                             ELSE @,
                    !.at = IF o = "raised" THEN MainEnd ELSE @ + 1]
    /\ MainFrame

\* executor.submit of review_fetcher.run and active_player_fetcher.run
SubmitFutures ==
    /\ main.at < MainEnd
    /\ MainOrder[main.at] = "futures"
    /\ \A f \in Futures : main.ended[f] = "none"
    /\ main' = [main EXCEPT !.ended = [u \in Units |->
                   IF u \in Futures THEN "running" ELSE @[u]]]
    /\ MainFrame

\* one of the two runs ends in its worker thread
FutureEnds ==
    /\ \E f \in Futures :
         /\ main.ended[f] = "running"
         /\ \E o \in Ends(f) : main' = [main EXCEPT !.ended[f] = o]
    /\ MainFrame

\* future.result() of both futures, each in its own try block
FutureResults ==
    /\ main.at < MainEnd
    /\ MainOrder[main.at] = "futures"
    /\ \A f \in Futures : main.ended[f] \in {"ok", "raised"}
    /\ main' = [main EXCEPT
                  !.logs = @ \cup {<<"main", f>> : f \in
                             {g \in Futures : main.ended[g] = "raised"}},
                  !.at = @ + 1]
    /\ MainFrame

NextMain ==
    \/ MainStep
    \/ SubmitFutures
    \/ FutureEnds
    \/ FutureResults

SpecMain == InitMain /\ [][NextMain]_vars

\* ------------------------------------------------------------------------
\* The ITAD id fetcher: fetch_in_parallel over its batches
\* ------------------------------------------------------------------------
\* the tables the fetcher can have written before: save_checkpoint writes
\* the csv only from a non-empty fetched_data, every row with its appid
ItadOutputs ==
    {NoOutput} \cup
    {[exists |-> TRUE, cols |-> TRUE, rows |-> r] :
       r \in [Keys -> {Absent, 0}] \ {EmptyRows}}

\* the status strings the cache file holds beside such a table
ItadCaches(out) ==
    {c \in [Keys -> {NoEntry, StrEntry("success"), StrEntry("not_found"),
                     StrEntry("timeout")}] :
       \A k \in Keys :
         (out.rows[k] # Absent) <=>
           (c[k] \in {StrEntry("success"), StrEntry("not_found")})}

InitItad ==
    /\ fk = "itad_id"
    /\ now = 1 /\ runs = 1
    /\ outFile \in ItadOutputs
    /\ cacheFile \in ItadCaches(outFile)
    /\ ledger = NoLedger
    /\ pc = "fetch"
    /\ input \in Inputs(fk)
    /\ cache = cacheFile /\ loaded = cacheFile /\ buffer = EmptyRows
    /\ failed_list = {} /\ errored_list = {} /\ retry_ids = {}
    /\ queue = input /\ inBatch = 0 /\ stage = 0 /\ round = 0 /\ attempt = 0
    /\ lastOp = NoOp
    /\ requested = {} /\ done = {} /\ staleAtStart = {} /\ allOk = TRUE
    /\ prev = NoPrev /\ warm = FALSE /\ outAtStart = outFile
    /\ unresolved = {}
    /\ kill = NoKill /\ resumed = NoResume
    /\ quarantined = {}
    /\ db = {}
    /\ DiffIdle
    /\ ProcIdle
    /\ UtilIdle

\* what one request of fetch_game_info can get: a found game, found false,
\* an empty or malformed response, an exception
ItadOutcomes == {"ok", "notfound", "neg", "exc"}

\* the status string fetch_game_info stores
itad_status(o) ==
    IF o = "ok" THEN StrEntry("success")
    ELSE IF o = "notfound" THEN StrEntry("not_found")
    ELSE IF o = "neg" THEN StrEntry("failed_empty_response")
    ELSE StrEntry("timeout")

\* fetch_game_info(row) in a worker of the batch
ItadFetchGameInfo ==
    /\ fk = "itad_id" /\ pc = "fetch"
    /\ queue # <<>>
    /\ inBatch < BatchSize
    /\ LET k == Head(queue)
           did == IF cache[k] = StrEntry("success") THEN "skip" ELSE "request"
       IN \E o \in (IF did = "request" THEN ItadOutcomes ELSE {"none"}) :
            /\ cache' = IF did = "request"
                        THEN [cache EXCEPT ![k] = itad_status(o)] ELSE cache
            /\ buffer' = IF o \in {"ok", "notfound"}
                         THEN [buffer EXCEPT ![k] = now] ELSE buffer
            /\ failed_list' = IF o = "neg" THEN failed_list \cup {k}
                              ELSE failed_list
            /\ errored_list' = IF o = "exc" THEN errored_list \cup {k}
                               ELSE errored_list
            /\ requested' = IF did = "request" THEN requested \cup {k}
                            ELSE requested
            /\ lastOp' = [key |-> k, pre |-> cache[k], did |-> did,
                          out |-> o]
    /\ queue' = Tail(queue)
    /\ inBatch' = inBatch + 1
    /\ UNCHANGED <<fk, now, runs, fileVars, pc, input, loaded, retry_ids,
                   stage, round, attempt, done, staleAtStart, allOk, prev,
                   warm, outAtStart, unresolved, kill, resumed, quarantined,
                   diffVars, db,
                   procVars, utilVars, mainVars>>

\* a checkpoint that writes the new rows alone
itad_checkpoint_overwrites(out, buf) ==
    IF buf = EmptyRows THEN out
    ELSE [exists |-> TRUE, cols |-> TRUE, rows |-> buf]

\* pd.read_csv of an existing file without columns raises inside the try
itad_checkpoint_fails(out, buf) ==
    buf # EmptyRows /\ out.exists /\ ~out.cols

\* the csv after save_checkpoint: untouched when fetched_data is empty,
\* else concat([old, new]).drop_duplicates(subset="appid")
itad_checkpoint_output(out, buf) ==
    IF buf = EmptyRows THEN out
    ELSE [exists |-> TRUE, cols |-> TRUE, rows |-> keep_first(out.rows, buf)]

\* save_checkpoint() after the batch
ItadSaveCheckpoint ==
    /\ fk = "itad_id" /\ pc = "fetch"
    /\ inBatch > 0 /\ (inBatch = BatchSize \/ queue = <<>>)
    /\ IF itad_checkpoint_fails(outFile, buffer)
       THEN UNCHANGED <<outFile, cacheFile, buffer>>
       ELSE /\ outFile' = itad_checkpoint_output(outFile, buffer)
            /\ cacheFile' = cache
            /\ buffer' = EmptyRows
    /\ inBatch' = 0
    /\ pc' = IF queue = <<>> THEN "done" ELSE "fetch"
    /\ lastOp' = NoOp
    /\ UNCHANGED <<fk, now, runs, ledger, input, cache, loaded, failed_list,
                   errored_list, retry_ids, queue, stage, round, attempt,
                   histVars, diffVars, db, procVars, utilVars, mainVars>>

\* fetch_in_parallel is called again, by a retry round or a later run
ItadFetchAgain ==
    /\ fk = "itad_id" /\ pc = "done"
    /\ runs < MaxRuns
    /\ runs' = runs + 1
    /\ now' = IF now < MaxNow THEN now + 1 ELSE now
    /\ \E rows \in Inputs(fk) : input' = rows /\ queue' = rows
    /\ pc' = "fetch"
    /\ UNCHANGED <<fk, fileVars, memVars, inBatch, stage, round, attempt,
                   lastOp, histVars, diffVars, db, procVars, utilVars,
                   mainVars>>

NextItad ==
    \/ ItadFetchGameInfo
    \/ ItadSaveCheckpoint
    \/ ItadFetchAgain

SpecItad == InitItad /\ [][NextItad]_vars

\* ------------------------------------------------------------------------
\* A parser of DataProcessor: filter, astype, sort, save_if_changed
\* ------------------------------------------------------------------------
\* a parser that hands its table to save_if_changed as it was built
parse_table_unfiltered(raw, table_name, not_null_map) ==
    sort_by_index_columns(raw)

\* apply_not_null_filter, then sort_by_index_columns
parse_table(raw, table_name, not_null_map) ==
    sort_by_index_columns(
      apply_not_null_filter(Frame(Columns, raw), table_name,
                            not_null_map).rows)

\* df.astype(table_dtypes[table_name]) raises on a missing value left in
\* an int column
astype_raises(raw, table_name, not_null_map) ==
    \E r \in RowsOf(apply_not_null_filter(Frame(Columns, raw), table_name,
                                          not_null_map).rows) : r.price = NaN

\* the table a parser has merged, with missing values, a previous snapshot
\* and delta files that are absent or left by an earlier run
InitParse ==
    /\ new_df \in AllTables
    /\ processedFile \in {NoFile, BlankCsv} \cup {CsvFile(t) : t \in BuiltTables}
    /\ updatedFile \in {NoFile, CsvFile(StaleDelta)}
    /\ removedFile = NoFile
    /\ old_df = <<>> /\ only_new = <<>> /\ only_old = <<>>
    /\ dpc = "input" /\ db = {}
    /\ ppc = "process" /\ lastProc = NoProc
    /\ FetchIdle
    /\ UtilIdle

\* parse_game_static and the other parsers, from the not-null filter on
ParseTable ==
    /\ call.op = "none"
    /\ \E table_name \in TableNames, not_null_map \in NotNullMaps :
         LET df == parse_table(new_df, table_name, not_null_map)
             s == save_if_changed(df, processedFile, updatedFile,
                                  removedFile)
             raises == \/ astype_raises(new_df, table_name, not_null_map)
                       \/ merge_raises(processedFile)
         IN /\ processedFile' = IF raises THEN processedFile ELSE s.processed
            /\ updatedFile' = IF raises THEN updatedFile ELSE s.updated
            /\ removedFile' = IF raises THEN removedFile ELSE s.removed
            /\ call' = [op |-> "parse_table",
                        arg |-> <<table_name, not_null_map>>,
                        pre |-> processedFile, ret |-> df,
                        raised |-> raises]
    /\ UNCHANGED <<new_df, old_df, only_new, only_old, dpc, db, ppc,
                   lastProc, fetchVars, timestamps, seconds, mainVars>>

NextParse == ParseTable

SpecParse == InitParse /\ [][NextParse]_vars

\* ------------------------------------------------------------------------
\* A fetcher that meets HTTP 429
\* ------------------------------------------------------------------------
\* the HTTPError handler calls rate_limit_manager.handle_rate_limit: the
\* detail fetcher does; the review and active-player fetchers have no
\* RateLimitManager and only log
handles_rate_limit(f) == f = "detail"

InitLimit ==
    /\ fk \in {"detail", "review", "active_player"}
    /\ now = 0 /\ runs = 0
    /\ cacheFile = EmptyCache /\ outFile = NoOutput /\ ledger = NoLedger
    /\ pc = "idle" /\ input = <<>>
    /\ cache = EmptyCache /\ loaded = EmptyCache /\ buffer = EmptyRows
    /\ failed_list = {} /\ errored_list = {} /\ retry_ids = {}
    /\ queue = <<>> /\ inBatch = 0 /\ stage = 0 /\ round = 0 /\ attempt = 0
    /\ lastOp = NoOp
    /\ requested = {} /\ done = {} /\ staleAtStart = {} /\ allOk = TRUE
    /\ prev = NoPrev /\ warm = FALSE /\ outAtStart = NoOutput
    /\ unresolved = {}
    /\ kill = NoKill /\ resumed = NoResume
    /\ quarantined = {}
    /\ timestamps = <<>> /\ seconds = 0 /\ call = NoCall
    /\ main = NoMain /\ pool = NoPool
    /\ db = {}
    /\ DiffIdle
    /\ ProcIdle

\* the request for an item is answered with 429: the HTTPError handler of
\* the fetch puts the item on errored_list; handle_rate_limit records the
\* signal and sleeps for the backoff; the exception is raised again
Http429 ==
    /\ fk \in {"detail", "review", "active_player"}
    /\ Len(timestamps) < MaxSignals
    /\ seconds < MaxSeconds
    /\ \E k \in Keys :
         LET ts == IF handles_rate_limit(fk)
                   THEN record_rate_limit(timestamps, seconds)
                   ELSE timestamps
             backoff == IF handles_rate_limit(fk)
                        THEN get_backoff_time(Len(ts)) ELSE 0
         IN /\ errored_list' = errored_list \cup {k}
            /\ timestamps' = ts
            /\ seconds' = seconds + backoff
            /\ call' = [op |-> "http_429", arg |-> k, pre |-> timestamps,
                        ret |-> backoff, raised |-> TRUE]
    /\ UNCHANGED <<fk, now, runs, fileVars, pc, input, cache, loaded, buffer,
                   failed_list, retry_ids, ctlVars, lastOp, histVars,
                   diffVars, db, procVars, mainVars>>

\* time passes between two answers
LimitTick ==
    /\ fk \in {"detail", "review", "active_player"}
    /\ seconds < MaxSeconds
    /\ seconds' = seconds + TickSeconds
    /\ call' = NoCall
    /\ UNCHANGED <<timestamps, fetchVars, diffVars, db, procVars, mainVars>>

NextLimit == Http429 \/ LimitTick

SpecLimit == InitLimit /\ [][NextLimit]_vars

\* ------------------------------------------------------------------------
\* save_checkpoint when the write of the output csv can fail
\* ------------------------------------------------------------------------
\* the fetchers whose save_checkpoint resets the buffer
Savers == {"review", "active_player", "itad_price"}

\* df.to_csv in save_csv writes the file, or raises (the path cannot be
\* opened for writing) and save_csv returns False
Writes == {"written", "write_fails"}

\* the output files a checkpoint can meet
SavedOutputs ==
    {NoOutput, [exists |-> TRUE, cols |-> FALSE, rows |-> EmptyRows]} \cup
    {[exists |-> TRUE, cols |-> TRUE, rows |-> r] :
       r \in [Keys -> {Absent, 0}] \ {EmptyRows}}

\* the buffers of the batches: the rows fetched at hour 1
Buffers == [Keys -> {Absent, 1}]

\* the status cache beside such a buffer
saver_cache(f, buf) ==
    [k \in Keys |->
       IF buf[k] = Absent THEN NoEntry
       ELSE IF f = "active_player" THEN SuccessEntry(1)
       ELSE StrEntry("success")]

\* save_checkpoint leaves by its except clause before the buffer is reset;
\* the ITAD price fetcher does so at its last pd.read_csv of a file
\* without columns
saver_raises(f, out, buf) ==
    IF f = "itad_price" THEN buf # EmptyRows /\ out.exists /\ ~out.cols
    ELSE checkpoint_fails(f, out, buf)

\* the ITAD price fetcher returns at once when fetched_data is empty
saver_returns_early(f, buf) == f = "itad_price" /\ buf = EmptyRows

\* the table save_csv is handed
saver_merged(f, out, buf) ==
    IF f = "itad_price"
    THEN [exists |-> TRUE, cols |-> TRUE, rows |-> keep_last(out.rows, buf)]
    ELSE checkpoint_output(f, out, buf)

\* the output file after save_checkpoint; save_csv swallows the error
saver_output(f, out, buf, w) ==
    IF saver_returns_early(f, buf) THEN out
    ELSE IF f = "itad_price" /\ out.exists /\ ~out.cols THEN out
    ELSE IF f # "itad_price" /\ saver_raises(f, out, buf) THEN out
    ELSE IF w = "write_fails" THEN out
    ELSE saver_merged(f, out, buf)

\* the buffer after save_checkpoint: the result of save_csv is not looked
\* at, the list is reset at the end of the try
saver_buffer(f, out, buf, w) ==
    IF saver_returns_early(f, buf) \/ saver_raises(f, out, buf) THEN buf
    ELSE EmptyRows

\* the cache file after save_checkpoint
saver_cache_file(f, file, mem, old, out, buf) ==
    IF saver_returns_early(f, buf) THEN file
    ELSE IF f = "itad_price" THEN mem
    ELSE IF saver_raises(f, out, buf) THEN file
    ELSE cache_saved(f, file, mem, old)

InitSaver ==
    /\ fk \in Savers
    /\ now = 1 /\ runs = 1
    /\ outFile \in SavedOutputs
    /\ cacheFile = EmptyCache
    /\ ledger = NoLedger
    /\ pc = "save"
    /\ input = <<>>
    /\ buffer \in Buffers
    /\ cache = saver_cache(fk, buffer) /\ loaded = EmptyCache
    /\ failed_list = {} /\ errored_list = {} /\ retry_ids = {}
    /\ queue = <<>> /\ inBatch = 0 /\ stage = 0 /\ round = 0 /\ attempt = 0
    /\ lastOp = NoOp
    /\ requested = {} /\ done = {} /\ staleAtStart = {} /\ allOk = TRUE
    /\ prev = NoPrev /\ warm = FALSE /\ outAtStart = outFile
    /\ unresolved = {}
    /\ kill = NoKill /\ resumed = NoResume
    /\ quarantined = {}
    /\ db = {}
    /\ DiffIdle
    /\ ProcIdle
    /\ UtilIdle

\* save_checkpoint() after a batch
SaverCheckpoint ==
    /\ fk \in Savers /\ pc = "save"
    /\ \E w \in Writes :
         /\ outFile' = saver_output(fk, outFile, buffer, w)
         /\ buffer' = saver_buffer(fk, outFile, buffer, w)
         /\ call' = [op |-> "save_checkpoint", arg |-> w, pre |-> buffer,
                     ret |-> 0,
                     raised |-> saver_raises(fk, outFile, buffer)]
    /\ cacheFile' = saver_cache_file(fk, cacheFile, cache, loaded, outFile,
                                     buffer)
    /\ pc' = "saved"
    /\ UNCHANGED <<fk, now, runs, ledger, input, cache, loaded, failed_list,
                   errored_list, retry_ids, queue, inBatch, stage, round,
                   attempt, lastOp, histVars, diffVars, db, procVars,
                   timestamps, seconds, mainVars>>

\* the next batch appends its rows to the buffer
SaverBatch ==
    /\ fk \in Savers /\ pc = "saved"
    /\ runs < MaxRuns
    /\ runs' = runs + 1
    /\ \E rows \in Buffers :
         /\ buffer' = keep_last(buffer, rows)
         /\ cache' = [k \in Keys |->
                        IF rows[k] # Absent THEN saver_cache(fk, rows)[k]
                        ELSE cache[k]]
    /\ pc' = "save"
    /\ UNCHANGED <<fk, now, fileVars, input, loaded, failed_list,
                   errored_list, retry_ids, ctlVars, lastOp, histVars,
                   diffVars, db, procVars, utilVars, mainVars>>

NextSaver == SaverCheckpoint \/ SaverBatch

SpecSaver == InitSaver /\ [][NextSaver]_vars

\* ------------------------------------------------------------------------
\* fetch_in_parallel of a thread-pool fetcher and its worker threads
\* ------------------------------------------------------------------------
\* thread_workers of the fetchers
THREAD_WORKERS == 2
\* the work list is PoolBatches batches of PoolBatchItems items
PoolBatches == 3
PoolBatchItems == 3

PoolTasks == (1..PoolBatches) \X (1..PoolBatchItems)

\* the tasks of batch k that are in the state st
TasksIn(task, k, st) == {i \in 1..PoolBatchItems : task[<<k, i>>] = st}

\* an executor that is left while tasks are still at work
executor_exit_nowait(task, k) == TRUE

\* the loop over the futures and the end of `with ThreadPoolExecutor`:
\* future.result() of every future, then shutdown(wait=True)
executor_exit(task, k) == \A i \in 1..PoolBatchItems : task[<<k, i>>] = "done"

InitPool ==
    /\ pool = [at |-> "submit", batch |-> 1, next |-> 1,
               task |-> [t \in PoolTasks |-> "idle"],
               writes |-> {}, returned |-> {}]
    /\ main = NoMain
    /\ timestamps = <<>> /\ seconds = 0 /\ call = NoCall
    /\ db = {}
    /\ DiffIdle
    /\ ProcIdle
    /\ FetchIdle

PoolFrame == UNCHANGED <<diffVars, db, procVars, fetchVars, utilVars, main>>

\* main thread: executor.submit(self.fetch_..._data, app_id)
Submit ==
    /\ pool.at = "submit"
    /\ pool' = [pool EXCEPT
                  !.task[<<pool.batch, pool.next>>] = "queued",
                  !.next = @ + 1,
                  !.at = IF pool.next = PoolBatchItems THEN "wait" ELSE @]
    /\ PoolFrame

\* a free worker thread takes a queued task and calls the fetch
TaskStarts ==
    /\ \E t \in PoolTasks :
         /\ pool.task[t] = "queued"
         /\ Cardinality({u \in PoolTasks : pool.task[u] = "running"})
              < THREAD_WORKERS
         /\ pool' = [pool EXCEPT !.task[t] = "running"]
    /\ PoolFrame

\* the fetch returns or raises in its worker thread: lists and the status
\* cache in memory are updated, no file is written
TaskEnds ==
    /\ \E t \in PoolTasks :
         /\ pool.task[t] = "running"
         /\ pool' = [pool EXCEPT !.task[t] = "done"]
    /\ PoolFrame

\* main thread: the results are taken and the executor is left
ExecutorExit ==
    /\ pool.at = "wait"
    /\ executor_exit(pool.task, pool.batch)
    /\ pool' = [pool EXCEPT !.at = "save"]
    /\ PoolFrame

\* main thread: save_checkpoint() is entered and writes the output table
SaveStarts ==
    /\ pool.at = "save"
    /\ pool' = [pool EXCEPT
                  !.at = "saving",
                  !.writes = @ \cup {<<"main", pool.batch, "csv">>}]
    /\ PoolFrame

\* main thread: save_checkpoint() writes the status cache and returns; the
\* loop goes to the next batch
SaveReturns ==
    /\ pool.at = "saving"
    /\ pool' = [pool EXCEPT
                  !.writes = @ \cup {<<"main", pool.batch, "cache">>},
                  !.returned = @ \cup {pool.batch},
                  !.batch = IF @ < PoolBatches THEN @ + 1 ELSE @,
                  !.next = 1,
                  !.at = IF pool.batch < PoolBatches THEN "submit" ELSE "end"]
    /\ PoolFrame

NextPool ==
    \/ Submit
    \/ TaskStarts
    \/ TaskEnds
    \/ ExecutorExit
    \/ SaveStarts
    \/ SaveReturns

SpecPool == InitPool /\ [][NextPool]_vars

\* ------------------------------------------------------------------------
\* The worker threads of the active-player fetcher on one batch
\* ------------------------------------------------------------------------
\* ids per batch (40 in the program), scaled to the number of keys
RaceBatchItems == 2

Workers == 1..THREAD_WORKERS

\* the batches: id lists of the input csv, an id may come twice
RaceBatches ==
    UNION {[1..n -> Keys] : n \in 1..RaceBatchItems}

\* the entries the cache file can hold for an id at the start
RaceEntries == {NoEntry, FailedEntry(1, 0)}

IdleWorker == [at |-> "idle", key |-> 0, read |-> 0]

\* entry.get("fail_count", 0)
fail_count_of(entry) == IF entry.t = "dict" THEN entry.fail_count ELSE 0

\* pool in this specification: the batch and the next id to hand out, what
\* each worker is at, and the history of the batch: the cache before it,
\* per key the attempts that called record_fail, the keys another kind of
\* write or a raising record_fail touched, the attempts that appended to
\* failed_list and to errored_list.  failed_list and errored_list are the
\* Python lists here, one element per append.
InitRace ==
    /\ fk = "active_player"
    /\ now = 1 /\ runs = 1
    /\ cacheFile \in [Keys -> RaceEntries]
    /\ outFile = NoOutput
    /\ ledger = NoLedger
    /\ pc = "fetch"
    /\ input = <<>>
    /\ cache = cacheFile /\ loaded = EmptyCache /\ buffer = EmptyRows
    /\ failed_list = <<>> /\ errored_list = <<>> /\ retry_ids = {}
    /\ queue = <<>> /\ inBatch = 0 /\ stage = 0 /\ round = 0 /\ attempt = 0
    /\ lastOp = NoOp
    /\ requested = {} /\ done = {} /\ staleAtStart = {} /\ allOk = TRUE
    /\ prev = NoPrev /\ warm = FALSE /\ outAtStart = outFile
    /\ unresolved = {}
    /\ kill = NoKill /\ resumed = NoResume
    /\ quarantined = {}
    /\ db = {}
    /\ DiffIdle
    /\ ProcIdle
    /\ timestamps = <<>> /\ seconds = 0 /\ call = NoCall /\ main = NoMain
    /\ \E b \in RaceBatches :
         pool = [at |-> "run", batch |-> b, next |-> 1,
                 worker |-> [w \in Workers |-> IdleWorker],
                 before |-> cacheFile,
                 fails |-> [k \in Keys |-> 0],
                 others |-> {},
                 appendedFailed |-> 0, appendedErrored |-> 0]

RaceFrame ==
    UNCHANGED <<fk, now, runs, fileVars, pc, input, loaded, retry_ids,
                ctlVars, lastOp, histVars, diffVars, db, procVars, utilVars,
                main>>

\* a free worker takes the next submitted fetch_active_player_data(app_id)
\* and goes through its two guards
RaceTaskStarts(w) ==
    /\ pool.at = "run" /\ pool.worker[w].at = "idle"
    /\ pool.next <= Len(pool.batch)
    /\ LET k == pool.batch[pool.next]
           d == before_request(fk, cache[k], now)
       IN pool' = [pool EXCEPT
                     !.next = @ + 1,
                     !.worker[w] = IF d = "request"
                                   THEN [at |-> "request", key |-> k,
                                         read |-> 0]
                                   ELSE IdleWorker]
    /\ UNCHANGED <<cache, buffer, failed_list, errored_list>>
    /\ RaceFrame

\* the answer to the request, up to the call of record_fail
RaceResponse(w) ==
    /\ pool.at = "run" /\ pool.worker[w].at = "request"
    /\ LET k == pool.worker[w].key IN
       \E o \in Outcomes(fk) :
         /\ buffer' = IF o = "ok" THEN [buffer EXCEPT ![k] = now] ELSE buffer
         /\ failed_list' = IF o = "neg" THEN Append(failed_list, k)
                           ELSE failed_list
         /\ errored_list' = IF o \in {"exc", "http"}
                            THEN Append(errored_list, k) ELSE errored_list
         /\ cache' = IF o \in {"ok", "http"}
                     THEN cache_after(fk, cache, k, o, now) ELSE cache
         /\ pool' = [pool EXCEPT
                       !.worker[w] = IF o \in {"ok", "http"} THEN IdleWorker
                                     ELSE [@ EXCEPT !.at = "record_fail"],
                       !.fails[k] = IF o \in {"neg", "exc"} THEN @ + 1 ELSE @,
                       !.others = IF o \in {"ok", "http"} THEN @ \cup {k}
                                  ELSE @,
                       !.appendedFailed = IF o = "neg" THEN @ + 1 ELSE @,
                       !.appendedErrored = IF o \in {"exc", "http"}
                                           THEN @ + 1 ELSE @]
    /\ RaceFrame

\* record_fail, first half: entry = self.get(key) or {} and
\* fail_count = entry.get("fail_count", 0) + 1
RaceRecordFailGet(w) ==
    /\ pool.at = "run" /\ pool.worker[w].at = "record_fail"
    /\ LET k == pool.worker[w].key IN
       pool' = IF record_fail_raises(cache[k])
               THEN [pool EXCEPT !.worker[w] = IdleWorker,
                                 !.others = @ \cup {k}]
               ELSE [pool EXCEPT !.worker[w].at = "store",
                                 !.worker[w].read = fail_count_of(cache[k])]
    /\ UNCHANGED <<cache, buffer, failed_list, errored_list>>
    /\ RaceFrame

\* record_fail, second half: self.cache[str(key)] = {...}
RaceRecordFailStore(w) ==
    /\ pool.at = "run" /\ pool.worker[w].at = "store"
    /\ LET k == pool.worker[w].key IN
       cache' = [cache EXCEPT
                   ![k] = FailedEntry(pool.worker[w].read + 1, now)]
    /\ pool' = [pool EXCEPT !.worker[w] = IdleWorker]
    /\ UNCHANGED <<buffer, failed_list, errored_list>>
    /\ RaceFrame

\* the with block of the executor is left: every task has ended
RaceExecutorExit ==
    /\ pool.at = "run"
    /\ pool.next > Len(pool.batch)
    /\ \A w \in Workers : pool.worker[w].at = "idle"
    /\ pool' = [pool EXCEPT !.at = "done"]
    /\ UNCHANGED <<cache, buffer, failed_list, errored_list>>
    /\ RaceFrame

NextRace ==
    \/ \E w \in Workers : RaceTaskStarts(w)
    \/ \E w \in Workers : RaceResponse(w)
    \/ \E w \in Workers : RaceRecordFailGet(w)
    \/ \E w \in Workers : RaceRecordFailStore(w)
    \/ RaceExecutorExit

SpecRace == InitRace /\ [][NextRace]_vars

\* ------------------------------------------------------------------------
\* Properties of the snapshot diff
\* ------------------------------------------------------------------------
InBoth == IdsOf(new_df) \cap IdsOf(old_df)

\* C1: once difference(new, old) has run, every row of new whose identity is
\* absent from old is in the added-or-changed output, every row of old whose
\* identity is absent from new is in the removed output, and for an identity
\* present in both with a differing non-identity value the new row is in
\* the added-or-changed output and no row of that identity is in the
\* removed output.
C1_DiffClassifies ==
    dpc # "input" =>
      /\ \A r \in RowsOf(new_df) :
            r.id \notin IdsOf(old_df) => r \in RowsOf(only_new)
      /\ \A r \in RowsOf(old_df) :
            r.id \notin IdsOf(new_df) => r \in RowsOf(only_old)
      /\ \A i \in InBoth :
            RowOf(new_df, i).price # RowOf(old_df, i).price =>
              /\ RowOf(new_df, i) \in RowsOf(only_new)
              /\ i \notin IdsOf(only_old)

\* previous {1: 0, 2: 1}, current {1: 1, 3: 0}: one changed, one removed and
\* one added row
C1_Witness ==
    /\ dpc = "diffed"
    /\ old_df = <<[id |-> 1, price |-> 0], [id |-> 2, price |-> 1]>>
    /\ new_df = <<[id |-> 1, price |-> 1], [id |-> 3, price |-> 0]>>
    /\ only_new = <<[id |-> 1, price |-> 1], [id |-> 3, price |-> 0]>>
    /\ only_old = <<[id |-> 2, price |-> 1]>>

\* C2: a row present in both snapshots with the same value in every
\* non-identity column, a missing value included, is in neither output of
\* difference; so difference(T, T) is empty for every non-empty T.
C2_UnchangedRowInNeither ==
    dpc # "input" =>
      \A i \in InBoth :
        RowOf(new_df, i) = RowOf(old_df, i) =>
          i \notin IdsOf(only_new) /\ i \notin IdsOf(only_old)

\* C3: deleting from the previous snapshot the rows keyed by the removed
\* output and then upserting the added-or-changed output yields exactly the
\* rows of the new snapshot.
C3_DeltasRebuildNew ==
    dpc = "applied" => db = RowsOf(new_df)

\* the deltas of a changed, a removed and an unchanged row were applied
C3_Witness ==
    /\ dpc = "applied"
    /\ only_new # <<>>
    /\ only_old # <<>>
    /\ \E i \in InBoth : RowOf(new_df, i).price # RowOf(old_df, i).price
    /\ db = RowsOf(new_df)

\* ------------------------------------------------------------------------
\* Properties of the fetchers
\* ------------------------------------------------------------------------
Quarantining == {"detail", "active_player"}

\* C4: in the detail and active-player fetchers a fetch of a key whose
\* entry is failed with fail_count = 3 returns without a network request,
\* and a fetch of a key whose entry is failed with fail_count = 2 sends one.
C4_QuarantineAtThree ==
    (fk \in Quarantining /\ lastOp.did # "none"
       /\ lastOp.pre.t = "dict" /\ lastOp.pre.status = "failed") =>
      /\ lastOp.pre.fail_count = MaxAttempts => lastOp.did = "skip"
      /\ lastOp.pre.fail_count = MaxAttempts - 1 => lastOp.did = "request"

\* a later process met a key that had failed three times and skipped it
C4_Witness ==
    /\ fk \in Quarantining
    /\ runs > 1
    /\ lastOp.did = "skip"
    /\ lastOp.pre.status = "failed"
    /\ lastOp.pre.fail_count = MaxAttempts
    /\ lastOp.key \notin requested

\* C5: for every fetcher, a key cached as success with a collected_at older
\* than the freshness window at the start of a run has been requested by
\* the time the run has returned.
C5_StaleIsRefetched ==
    pc = "done" => staleAtStart \subseteq requested

\* C6: a run on the same input right after a run in which every item
\* succeeded sends no request, puts nothing in the buffer and leaves the
\* output table as it was.
C6_WarmRerunIdle ==
    warm => requested = {} /\ buffer = EmptyRows /\ outFile = outAtStart

C8_LedgerListsUnresolved ==
    pc = "done" =>
      /\ unresolved \subseteq failed_ids_from_file(ledger)
      /\ \A k \in failed_ids_from_file(ledger) :
            GuardOf(cacheFile[k]) # "success"

\* C9: run never propagates an exception.
C9_RunNeverRaises ==
    pc # "raised"

\* ------------------------------------------------------------------------
\* Properties of the staged delta files
\* ------------------------------------------------------------------------
\* C10: when the previous snapshot exists and the diff of the table has two
\* empty outputs, no _updated and no _removed file exists once
\* DataProcessor.run has processed the table: the delta files an earlier
\* run staged are deleted and nothing new is written.
C10_NoChangeNoDeltaFiles ==
    (ppc = "upload" /\ lastProc.prev /\ lastProc.same) =>
      ~updatedFile.exists /\ ~removedFile.exists

\* an unchanged table was processed while delta files of an earlier run,
\* whose upload had failed, were still in data/processed
C10_Witness ==
    /\ ppc = "upload"
    /\ lastProc.prev /\ lastProc.same /\ lastProc.stale
    /\ new_df # <<>>
    /\ ~updatedFile.exists /\ ~removedFile.exists

\* ------------------------------------------------------------------------
\* Properties of save_if_changed
\* ------------------------------------------------------------------------
SavedOver == call.op = "save_if_changed" /\ call.pre.processed.exists

\* C11: when save_if_changed has compared the table with its previous
\* snapshot and an output of the diff is non-empty, the _updated file is
\* written (it holds the added-or-changed rows) if that output is non-empty
\* and is left as it was otherwise, likewise the _removed file with the
\* removed rows, and the snapshot file does not exist.
C11_DeltasWrittenIffNonEmpty ==
    (SavedOver /\ ~call.raised /\ (only_new # <<>> \/ only_old # <<>>)) =>
      /\ updatedFile = IF only_new # <<>> THEN CsvFile(only_new)
                       ELSE call.pre.updated
      /\ removedFile = IF only_old # <<>> THEN CsvFile(only_old)
                       ELSE call.pre.removed
      /\ ~processedFile.exists

\* rows were removed only: the _removed file was written, the _updated
\* file was not, no snapshot file is left
C11_Witness ==
    /\ SavedOver /\ ~call.raised
    /\ only_new = <<>> /\ only_old # <<>>
    /\ ~call.pre.updated.exists /\ ~updatedFile.exists
    /\ ~call.pre.removed.exists /\ removedFile = CsvFile(only_old)
    /\ ~processedFile.exists

\* C12: when no previous snapshot file exists, save_if_changed writes the
\* whole new table as the _updated file, leaves no _removed file and
\* returns True.
C12_FirstSaveWritesAll ==
    (call.op = "save_if_changed" /\ ~call.pre.processed.exists) =>
      /\ ~call.raised
      /\ updatedFile = CsvFile(new_df)
      /\ ~removedFile.exists
      /\ call.ret = TRUE

\* a first save met a _removed file of an earlier run and deleted it
C12_Witness ==
    /\ call.op = "save_if_changed"
    /\ ~call.pre.processed.exists
    /\ call.pre.removed.exists
    /\ new_df # <<>>
    /\ updatedFile = CsvFile(new_df)
    /\ ~removedFile.exists

\* C13: save_if_changed and difference do not raise when the new table or
\* the previous table has no rows, a previous file without columns
\* included; an empty new table puts every previous row in the removed
\* output, an empty previous table every new row in the added-or-changed
\* output.
C13_EmptySidesTolerated ==
    (SavedOver /\ (new_df = <<>> \/ call.pre.processed.rows = <<>>)) =>
      /\ ~call.raised
      /\ new_df = <<>> => RowsOf(only_old) = RowsOf(call.pre.processed.rows)
      /\ call.pre.processed.rows = <<>> => only_new = new_df

\* ------------------------------------------------------------------------
\* Properties of the CacheManager
\* ------------------------------------------------------------------------
\* C14: whatever the key's entry was (none, a dict, a bare string),
\* record_fail(key) leaves the key failed with the previous fail_count plus
\* one (1 when there was none) and changes no other key.
C14_RecordFailCounts ==
    call.op = "record_fail" =>
      /\ ~call.raised
      /\ cache[call.arg].t = "dict"
      /\ cache[call.arg].status = "failed"
      /\ cache[call.arg].fail_count =
            (IF call.pre[call.arg].t = "dict"
             THEN call.pre[call.arg].fail_count ELSE 0) + 1
      /\ \A k \in Keys \ {call.arg} : cache[k] = call.pre[k]

\* C15: too_many_fails(key, n) is true exactly when the entry is a dict
\* with status failed and fail_count >= n, and the cache is as it was.
C15_TooManyFailsExact ==
    call.op = "too_many_fails" =>
      /\ ~call.raised
      /\ call.ret = (/\ call.pre[call.arg[1]].t = "dict"
                     /\ call.pre[call.arg[1]].status = "failed"
                     /\ call.pre[call.arg[1]].fail_count >= call.arg[2])
      /\ call.pre[call.arg[1]].t \in {"none", "str"} => call.ret = FALSE
      /\ call.pre[call.arg[1]].status = "success" => call.ret = FALSE
      /\ cache = call.pre

\* a key that has failed exactly as often as the limit asked for
C15_Witness ==
    /\ call.op = "too_many_fails"
    /\ call.ret = TRUE
    /\ call.arg[2] # MaxAttempts
    /\ cache[call.arg[1]].fail_count = call.arg[2]
    /\ \E k \in Keys : cache[k].t = "str"

\* C16: is_stale(key, h) is true when there is no entry, no collected_at,
\* an unparseable collected_at or an age over h hours, false when a
\* parseable collected_at is at most h hours old; it does not raise and
\* the cache is as it was.
C16_IsStaleExact ==
    call.op = "is_stale" =>
      /\ ~call.raised
      /\ call.ret = (\/ call.pre[call.arg[1]].t # "dict"
                     \/ call.pre[call.arg[1]].at \in {NoStamp, BadStamp}
                     \/ now - call.pre[call.arg[1]].at > call.arg[2])
      /\ cache = call.pre

\* an entry exactly as old as the window is not stale
C16_Witness ==
    /\ call.op = "is_stale"
    /\ call.ret = FALSE
    /\ cache[call.arg[1]].t = "dict"
    /\ now > 0
    /\ now - cache[call.arg[1]].at = call.arg[2]

\* ------------------------------------------------------------------------
\* Properties of the RateLimitManager
\* ------------------------------------------------------------------------
\* the signals of the list that are younger than window_seconds
Fresh(ts) == SelectSeq(ts, LAMBDA x : seconds - x < window_seconds)

\* the values of get_backoff_time for count = 1..5 with the defaults, in
\* tenths of a second: 5, 10, 20, 40, 150 seconds
DefaultBackoffs == <<50, 100, 200, 400, 1500>>

\* C17: with count the number of signals held, get_backoff_time returns
\* min(initial_backoff * 2^(count-1), max_backoff) for 1 <= count < threshold
\* and max_backoff for count >= threshold; for count = 1..5 these are 5, 10,
\* 20, 40, 150 seconds, and the value never exceeds max_backoff.
C17_BackoffFormula ==
    call.op = "get_backoff_time" =>
      LET count == Len(timestamps)
      IN /\ (1 <= count /\ count < threshold) =>
               call.ret = Tenths * Min(initial_backoff * Pow2(count - 1),
                                       max_backoff)
         /\ count >= threshold => call.ret = Tenths * max_backoff
         /\ count \in 1..5 => call.ret = DefaultBackoffs[count]
         /\ call.ret <= Tenths * max_backoff

\* the count has reached the threshold: the backoff jumps from 40 to 150
C17_Witness ==
    /\ call.op = "get_backoff_time"
    /\ Len(timestamps) = threshold
    /\ call.ret = Tenths * max_backoff
    /\ get_backoff_time(threshold - 1) = 400

\* C18 as stated: after a record_rate_limit that comes within one window
\* of the call before it, get_backoff_time is greater than it was after
\* that call, or is max_backoff.
C18_BackoffGrowsInWindow ==
    (/\ call.op = "record_rate_limit"
     /\ call.pre # <<>>
     /\ call.arg - call.pre[Len(call.pre)] < window_seconds) =>
      \/ get_backoff_time(Len(timestamps)) > get_backoff_time(Len(call.pre))
      \/ get_backoff_time(Len(timestamps)) = Tenths * max_backoff

\* C18, amended: the same, when every signal held before the call is still
\* within the window, so that the call drops none.
C18_BackoffGrowsWhileNoneExpires ==
    (/\ call.op = "record_rate_limit"
     /\ call.pre # <<>>
     /\ \A i \in 1..Len(call.pre) :
           call.arg - call.pre[i] < window_seconds) =>
      \/ get_backoff_time(Len(timestamps)) > get_backoff_time(Len(call.pre))
      \/ get_backoff_time(Len(timestamps)) = Tenths * max_backoff

\* a third signal within the window of the first two: 10 seconds became 20
C18_Witness ==
    /\ call.op = "record_rate_limit"
    /\ Len(call.pre) = 2
    /\ Len(timestamps) = 3
    /\ call.arg > call.pre[1]
    /\ get_backoff_time(Len(call.pre)) = 100
    /\ get_backoff_time(Len(timestamps)) = 200

\* C19: should_slow_down, get_backoff_time and get_current_delay count
\* only the signals younger than window_seconds; when the last signal is
\* window_seconds old, should_slow_down returns False.
C19_ReadsCountFreshOnly ==
    /\ call.op = "should_slow_down" =>
          call.ret = should_slow_down(Fresh(timestamps))
    /\ call.op = "get_backoff_time" =>
          call.ret = get_backoff_time(Len(Fresh(timestamps)))
    /\ call.op = "get_current_delay" =>
          call.ret = get_current_delay(Fresh(timestamps), call.arg)

\* ------------------------------------------------------------------------
\* Properties of the NOT NULL filter
\* ------------------------------------------------------------------------
\* the columns of the frame that the map requires for the table
Applicable(df, table_name, not_null_map) ==
    IF table_name \in DOMAIN not_null_map
    THEN {c \in not_null_map[table_name] : c \in df.cols}
    ELSE {}

\* C20: the filter returns exactly the rows of df, in their order, with no
\* null in any column that is required for the table and present in df;
\* required columns that df lacks are ignored; with no such column the
\* input is returned unchanged; a second application changes nothing.
C20_DropsExactlyNullRequired ==
    /\ call.op = "apply_not_null_filter" =>
         LET applicable == Applicable(call.pre, call.arg[1], call.arg[2])
         IN /\ call.ret.cols = call.pre.cols
            /\ call.ret.rows =
                 SelectSeq(call.pre.rows,
                           LAMBDA r : \A c \in applicable : r[c] # NaN)
            /\ applicable = {} => call.ret = call.pre
    /\ call.op = "apply_not_null_filter_again" => call.ret = call.pre

\* a row was dropped and a row kept, a required column is missing from the
\* frame, and a kept row holds a null in a column that is not required
C20_Witness ==
    /\ call.op = "apply_not_null_filter"
    /\ Len(call.ret.rows) = 1
    /\ Len(call.pre.rows) = 2
    /\ call.arg[1] \in DOMAIN call.arg[2]
    /\ call.arg[2][call.arg[1]] \ call.pre.cols # {}
    /\ \E c \in call.pre.cols : call.ret.rows[1][c] = NaN

\* ------------------------------------------------------------------------
\* Properties of main()
\* ------------------------------------------------------------------------
CollectionSteps ==
    {"list", "detail", "review", "active_player", "itad_id", "itad_price"}

\* C21: when main has ended, an exception of a collection step was logged
\* as that step's error and every later step of the pipeline has run.
C21_StepFailureIsolated ==
    main.at = MainEnd =>
      \A u \in CollectionSteps :
        main.ended[u] \in {"caught", "raised"} =>
          /\ <<"fetcher", u>> \in main.logs \/ <<"main", u>> \in main.logs
          /\ \A v \in Units : PlaceOf(v) > PlaceOf(u) => main.ended[v] # "none"

\* ------------------------------------------------------------------------
\* Properties of the retry schedule
\* ------------------------------------------------------------------------
\* the rounds of the five stages as the protocol has them: errored list,
\* failed list, errored list, failed list, merged list
ProtocolRounds == <<3, 2, 1, 1, 1>>

\* C22: after the first pass a run goes through the stages 1..5 in their
\* order, and a stage starts no more rounds than the protocol gives it:
\* 3, 2, 1, 1, 1.
C22_FiveStagesRoundLimits ==
    (pc \in {"stage", "fetch"} /\ stage >= 1) =>
      /\ stage \in 1..Len(ProtocolRounds)
      /\ round <= ProtocolRounds[stage]

\* the fetch of the next item of the batch would send a request
RequestDue ==
    /\ pc = "fetch"
    /\ queue # <<>>
    /\ inBatch < CurBatchSize
    /\ before_request(fk, cache[Head(queue)], now) = "request"

\* C23: the retry stages are the only source of retries: in the first pass
\* no request goes out for an item that this run has requested already.
C23_OneRequestInFirstPass ==
    (RequestDue /\ stage = 0) => Head(queue) \notin requested

\* ------------------------------------------------------------------------
\* Properties of a batch
\* ------------------------------------------------------------------------
\* the last fetch of the batch left fetch_*_data with an exception
LastFetchRaised == lastOp.did = "raise" \/ lastOp.out \in {"exc", "http"}

\* all items of the batch have been gone through
BatchOver ==
    /\ pc = "fetch"
    /\ fk # "list"
    /\ inBatch > 0
    /\ inBatch = CurBatchSize \/ queue = <<>>

InBuffer(k) == buffer[k] # Absent

\* C25: a fetch of an item that was not skipped, also one that ended by
\* raising, has left the item in exactly one of the buffer, failed_list and
\* errored_list, and the cache status of the item is success if and only if
\* its row is in the buffer.
C25_AttemptHasOneOutcome ==
    lastOp.did \in {"request", "raise"} =>
      LET k == lastOp.key
      IN /\ \/ InBuffer(k) /\ k \notin failed_list /\ k \notin errored_list
            \/ ~InBuffer(k) /\ k \in failed_list /\ k \notin errored_list
            \/ ~InBuffer(k) /\ k \notin failed_list /\ k \in errored_list
         /\ InBuffer(k) <=> cache[k].status = "success"

\* the item has a success entry of this fetcher, written at this hour: in
\* the cache in memory, or among the entries loaded from the cache file
OwnSuccess(k) ==
    \/ cache[k] = SuccessEntry(now)
    \/ loaded[k] = SuccessEntry(now)

\* C26: no request is sent for an item that is presented to the batch fetch
\* again after the fetcher's own success path has written its cache entry,
\* be it in the same run or after the cache was saved and loaded again.
C26_OwnSuccessIsSkipped ==
    (pc = "fetch" /\ queue # <<>> /\ inBatch < CurBatchSize
       /\ OwnSuccess(Head(queue))) => ~RequestDue

\* ------------------------------------------------------------------------
\* Properties of the thread pool
\* ------------------------------------------------------------------------
\* C27: while save_checkpoint of batch k is at work every task of batch k
\* has finished; a task of a later batch has left its idle state only when
\* the checkpoint of the batch before has returned; every file write is one
\* of the main thread.
C27_CheckpointBetweenBatches ==
    /\ pool.at = "saving" =>
         TasksIn(pool.task, pool.batch, "done") = 1..PoolBatchItems
    /\ \A t \in DOMAIN pool.task :
         (pool.task[t] # "idle" /\ t[1] > 1) => (t[1] - 1) \in pool.returned
    /\ \A w \in pool.writes : w[1] = "main"

\* the checkpoint of the last batch is at work, that of the first has
\* returned, and the tasks of the last batch have run in the workers
C27_Witness ==
    /\ pool.at = "saving"
    /\ pool.batch = PoolBatches
    /\ 1 \in pool.returned
    /\ <<"main", PoolBatches, "csv">> \in pool.writes
    /\ TasksIn(pool.task, PoolBatches, "done") = 1..PoolBatchItems

\* ------------------------------------------------------------------------
\* Properties of the ITAD id fetcher
\* ------------------------------------------------------------------------
\* C28: the persisted table of the ITAD id fetcher holds every row it held
\* when fetch_in_parallel began, unchanged, and a row for every item that
\* was fetched (its row is no longer waiting in fetched_data for the
\* checkpoint of its batch), whatever batch fetched it.
C28_CheckpointsAccumulate ==
    fk = "itad_id" =>
      /\ \A k \in KeysIn(outAtStart.rows) :
           outFile.rows[k] = outAtStart.rows[k]
      /\ \A k \in requested :
           (cache[k] \in {StrEntry("success"), StrEntry("not_found")}
              /\ buffer[k] = Absent) => outFile.rows[k] # Absent

\* a table with a row held before, two batches that have each fetched an
\* item, and the rows of both batches and the old row are in the table
C28_Witness ==
    /\ fk = "itad_id" /\ pc = "done"
    /\ KeysIn(outAtStart.rows) # {}
    /\ Cardinality(requested) >= 2
    /\ requested \ KeysIn(outAtStart.rows) # {}
    /\ \A k \in requested : cache[k] = StrEntry("success")
    /\ KeysIn(outFile.rows) = KeysIn(outAtStart.rows) \cup requested

\* ------------------------------------------------------------------------
\* Properties of the merge of a checkpoint
\* ------------------------------------------------------------------------
\* C29: the checkpoint of a batch leaves, for every key that has a row both
\* in the persisted output table and in the newly fetched rows, the newly
\* fetched row in the table.
C29_RefetchedRowReplaces ==
    [][BatchOver =>
         \A k \in Keys :
           (outFile.rows[k] # Absent /\ buffer[k] # Absent) =>
             outFile'.rows[k] = buffer[k]]_vars

\* ------------------------------------------------------------------------
\* Properties of retry_loop
\* ------------------------------------------------------------------------
\* the outcomes of a fetch that put the item on a list again
FailedOutcomes == {"neg", "nodata", "exc", "http"}

\* C30: retry_loop starts a round only over a non-empty target list and
\* never more than max_retries rounds; the round empties the list and
\* queues each distinct id of it once; each fetch of the round takes one id
\* off the queue and the list gains at most that id, by a failure of that
\* fetch; the checkpoints of the round leave the list alone.
C30_RetryLoopRounds ==
    [][/\ (pc = "stage" /\ pc' = "fetch") =>
            /\ Targets # {}
            /\ round < max_retries(fk, stage)
            /\ round' = round + 1
            /\ SeqKeys(queue') = Targets
            /\ Len(queue') = Cardinality(Targets)
            /\ Targets' = {}
       /\ (pc = "fetch" /\ stage >= 1 /\ ~BatchOver) =>
            /\ queue' = Tail(queue)
            /\ Targets' \subseteq (Targets \cup {Head(queue)})
            /\ (Targets' # Targets) => lastOp'.out \in FailedOutcomes
       /\ (stage >= 1 /\ BatchOver) => Targets' = Targets
       /\ round' <= max_retries(fk', stage')]_vars

\* the last round the second stage may run is over, and a failure of that
\* round has put its item on the emptied list again
C30_Witness ==
    /\ pc = "stage" /\ stage = 2
    /\ round = max_retries(fk, stage)
    /\ failed_list # {}

\* ------------------------------------------------------------------------
\* Properties of the targets of the last retry stage
\* ------------------------------------------------------------------------
\* the cache entry of the key is marked failed
MarkedFailed(k) == cache[k].t # "none" /\ cache[k].status = "failed"

\* C31: when run has built retry_ids after the first pass, the list holds
\* every id whose cache entry is marked failed, and every id of the ledger
\* of the run before, unless the entry of the id is a success.
C31_LastStageTargets ==
    [][(pc = "after1" /\ pc' = "stage") =>
         \A k \in Keys :
           ((MarkedFailed(k) \/ k \in failed_ids_from_file(ledger))
              /\ cache[k].status # "success") => k \in retry_ids']_vars

\* ------------------------------------------------------------------------
\* Properties of the persisted cache beside the persisted output
\* ------------------------------------------------------------------------
\* the entry is a success, as a dict or as a bare string
IsSuccess(entry) == entry.t # "none" /\ entry.status = "success"

IntKeyed(k) == fk = "review" /\ cache[k].t # "none"

\* the status cache holds an entry under the string form of the id: the
\* keys json.load gives, and every key of a CacheManager
StrKeyed(k) ==
    IF fk = "review" THEN loaded[k].t # "none" ELSE cache[k].t # "none"

\* C33: no entity has two entries in the status cache, one under its
\* integer id and one under the string form of the id (both would be
\* dumped to the cache file as the same key).
C33_OneEntryPerEntity ==
    \A k \in Keys : ~(IntKeyed(k) /\ StrKeyed(k))

\* ------------------------------------------------------------------------
\* Properties of a rate-limit response
\* ------------------------------------------------------------------------
\* C34: when the request of a fetcher was answered with 429, the item is on
\* errored_list for the staged retry, the rate limiter of the fetcher holds
\* a signal it did not hold before, and the thread has paused for a
\* backoff.
C34_RateLimitBacksOff ==
    call.op = "http_429" =>
      /\ call.arg \in errored_list
      /\ timestamps # <<>> /\ timestamps # call.pre
      /\ call.ret > 0

\* ------------------------------------------------------------------------
\* Properties of a parser
\* ------------------------------------------------------------------------
\* the column is required of the table by the not_null_map of the call
RequiredOf(table_name, not_null_map) ==
    IF table_name \in DOMAIN not_null_map THEN not_null_map[table_name]
    ELSE {}

\* the rows of the previous snapshot whose new version has a null in a
\* required column
NulledRows ==
    {r \in RowsOf(call.pre.rows) :
       /\ r.id \in IdsOf(new_df)
       /\ \E c \in RequiredOf(call.arg[1], call.arg[2]) \cap Columns :
            RowOf(new_df, r.id)[c] = NaN}

\* C35: when a parser has run, every row of the previous snapshot whose new
\* version has a null in a required column is in the removed delta file.
C35_FilteredRowIsRemoved ==
    call.op = "parse_table" =>
      \A r \in NulledRows : removedFile.exists /\ r \in RowsOf(removedFile.rows)

\* a parser has met such a row beside a row that stays
C35_Witness ==
    /\ call.op = "parse_table"
    /\ NulledRows # {}
    /\ call.ret # <<>>
    /\ removedFile.exists
    /\ NulledRows \subseteq RowsOf(removedFile.rows)

\* ------------------------------------------------------------------------
\* Properties of a bare status string in the cache
\* ------------------------------------------------------------------------
\* the entry is a bare status-code string of an error path
BareErrorString(entry) == entry.t = "str" /\ entry.status # "success"

\* C36: when the next item of the batch has a bare status-code string as
\* its cache entry, its fetch decides without raising to send the request.
C36_BareStringIsFetchedAgain ==
    (/\ pc = "fetch" /\ queue # <<>> /\ inBatch < CurBatchSize
     /\ BareErrorString(cache[Head(queue)])) => RequestDue

Committed ==
    insert_or_update_data(delete_rows(db, removedFile.rows), updatedFile.rows)

\* C38: DBUploader.run removes a delta file only when the changes of the
\* delta files are in the database afterwards: after a rollback and after a
\* dry run both files are as they were.
C38_DeltaDeletedOnlyWhenApplied ==
    [][ppc = "upload" =>
         ((removedFile' # removedFile \/ updatedFile' # updatedFile) =>
            db' = Committed)]_vars

\* ------------------------------------------------------------------------
\* Properties of a checkpoint whose write fails
\* ------------------------------------------------------------------------
\* C39: when save_checkpoint returns, every row the buffer held is in the
\* output table on disk or still in the buffer, also when the write of the
\* output file failed.
C39_NoRowLostAtCheckpoint ==
    [][(pc = "save" /\ pc' = "saved") =>
         \A k \in Keys :
           buffer[k] # Absent =>
             (outFile'.rows[k] # Absent \/ buffer'[k] # Absent)]_vars

\* ------------------------------------------------------------------------
\* Properties of the worker threads
\* ------------------------------------------------------------------------
\* C40: after a batch of the active-player fetcher with its two workers, a
\* key whose attempts of the batch all ended in record_fail has the
\* fail_count it had before plus the number of those attempts, and
\* failed_list and errored_list hold one element per failed or errored
\* attempt.
C40_NoWorkerUpdateLost ==
    pool.at = "done" =>
      /\ \A k \in Keys \ pool.others :
           fail_count_of(cache[k])
             = fail_count_of(pool.before[k]) + pool.fails[k]
      /\ Len(failed_list) = pool.appendedFailed
      /\ Len(errored_list) = pool.appendedErrored

====
